---- MODULE Spec2Model ----
(***************************************************************************)
(* A model of the UUICS core: the DOM scanner with its change-detection    *)
(* cache (DOMScanner), the engine's scan/aggregate step (UUICSEngine.scan) *)
(* and the action executor (ActionExecutor.execute / executeBatch with the *)
(* settle wait).                                                           *)
(*                                                                         *)
(* Strings of the program are sequences of UTF-16 code units, so that the  *)
(* 32-bit string hash, toLowerCase, trim and the regular-expression tests  *)
(* are computed the way the code computes them.                            *)
(***************************************************************************)
EXTENDS Integers, Sequences, FiniteSets, TLC

\* ------------------------------------------------------------------ bounds
NumNodes == 3       \* nodes of the modelled document, node 1 is document.body
MaxDepth == 2       \* largest configured scan depth that is tried
MaxMutations == 2   \* DOM mutations by the page in one behaviour
MaxClock == 2       \* largest value of Date.now() that is reached
MaxBatch == 2       \* largest number of commands in one executeBatch call
MaxLen == 3         \* longest string handed to sanitizeSelector
MaxTicks == 4       \* the tracker's clock stops here
MaxNotes == 3       \* change notifications in one behaviour
DebounceTicks == 2  \* track.debounceDelay, in ticks of the tracker's clock
MaxExecutes == 2    \* engine.execute calls in one behaviour
MaxScans == 3       \* scans the engine asks for in one behaviour
MaxNesting == 4     \* the deepest property the application changes
MaxInits == 2       \* engine.initialize calls in one behaviour
MaxDestroys == 1    \* engine.destroy calls in one behaviour
MaxStarts == 3      \* MutationTracker.start calls in one behaviour of start/stop cycles

\* ------------------------------------------------------- program constants
DefaultMaxElements == 1000

\* ------------------------------------------------------------------ strings
s_BODY == <<66, 79, 68, 89>>
s_DIV == <<68, 73, 86>>
s_SPAN == <<83, 80, 65, 78>>
s_INPUT == <<73, 78, 80, 85, 84>>
s_div == <<100, 105, 118>>
s_span == <<115, 112, 97, 110>>
s_input == <<105, 110, 112, 117, 116>>
s_nav == <<110, 97, 118>>
s_dotnav == <<46, 110, 97, 118>>
s_Aa == <<65, 97>>
s_BB == <<66, 66>>
s_hello == <<104, 101, 108, 108, 111>>
ChSpace == 32
ChHash == 35
ChDot == 46
ChBar == 124
ChDash == 45
ChEnDash == 8211
ChEmDash == 8212
ChQuote == 34
ChApostrophe == 39
ChBackslash == 92
ChColon == 58

Range(f) == {f[i] : i \in DOMAIN f}

\* String.prototype.toLowerCase on the ASCII letters
toLowerCase(s) == [i \in 1..Len(s) |-> IF s[i] \in 65..90 THEN s[i] + 32 ELSE s[i]]

\* the characters the regular-expression class \s and trim treat as blank
isWhitespace(c) == c \in {9, 10, 32}

RECURSIVE stripLeading(_, _)
\* s without its longest prefix of characters from chars
stripLeading(s, chars) ==
  IF s # <<>> /\ Head(s) \in chars THEN stripLeading(Tail(s), chars) ELSE s

RECURSIVE stripTrailing(_, _)
\* s without its longest suffix of characters from chars
stripTrailing(s, chars) ==
  IF s # <<>> /\ s[Len(s)] \in chars THEN stripTrailing(SubSeq(s, 1, Len(s) - 1), chars) ELSE s

\* String.prototype.trim
trim(s) == stripTrailing(stripLeading(s, {9, 10, 32}), {9, 10, 32})

\* RegExp.prototype.test for a pattern that is a plain literal: substring search
regexTest(pattern, s) ==
  \E i \in 1..(Len(s) - Len(pattern) + 1) : SubSeq(s, i, i + Len(pattern) - 1) = pattern

RECURSIVE join(_, _)
join(parts, sep) ==
  IF parts = <<>> THEN <<>>
  ELSE IF Len(parts) = 1 THEN Head(parts)
  ELSE Head(parts) \o <<sep>> \o join(Tail(parts), sep)

\* --------------------------------------------------------------------- hash
\* hash = (hash << 5) - hash + char; hash = hash & hash, on a 32-bit integer kept
\* as two 16-bit halves <<hi, lo>> (31 * h + c modulo 2^32)
hashStep(h, c) ==
  LET lo == 31 * h[2] + c
      hi == 31 * h[1] + (lo \div 65536)
  IN <<hi % 65536, lo % 65536>>

RECURSIVE hashFrom(_, _, _)
hashFrom(str, i, h) ==
  IF i > Len(str) THEN h ELSE hashFrom(str, i + 1, hashStep(h, str[i]))

\* Math.abs of the signed 32-bit value, again as two 16-bit halves
absInt32(h) ==
  IF h[1] < 32768 THEN h
  ELSE IF h[2] = 0 THEN <<65536 - h[1], 0>>
  ELSE <<65535 - h[1], 65536 - h[2]>>

\* utils.hash: Math.abs(hash).toString(36); toString(36) is one-to-one on the
\* non-negative integers, so the absolute value stands for the string
hash(str) == absInt32(hashFrom(str, 1, <<0, 0>>))

\* ---------------------------------------------------------------- optionals
\* a value that may be undefined
None == [def |-> FALSE, v |-> <<>>]
Some(x) == [def |-> TRUE, v |-> x]

VARIABLES
  parent,          \* the document tree: parent[n] is the parent node, 0 for body
  dom,             \* per node: tagName, id, className, name, value, text, visible
  config,          \* DOMScanner.config, the instance configuration
  cache,           \* DOMScanner.cache, keyed by node identity
  idCounter,       \* number of ids generateId has handed out
  now,             \* Date.now()
  lastScan,        \* the latest DOMScanner.scan call: its result and the DOM it saw
  prevScan,        \* the scan call before it
  currentContext,  \* UUICSEngine.currentContext
  mutations,       \* number of DOM mutations the page has made
  scanThrew        \* a scan call ended with an exception instead of a list

scanVars ==
  <<parent, dom, config, cache, idCounter, now, lastScan, prevScan, currentContext, mutations,
    scanThrew>>

VARIABLES
  commands,        \* the array passed to ActionExecutor.executeBatch
  page,            \* the form state of the page the executor acts on
  phase,           \* per command: notStarted, settling, returned or threw
  waits,           \* per command: its waitForStateSettle promise
  results,         \* the results array of executeBatch, with the command each came from
  log,             \* the DOM effects and results, in the order they happened
  next,            \* the position of the executeBatch loop
  delayPending,    \* the 50 ms delay between two commands is running
  batchDone,       \* executeBatch has returned (or rejected)
  escaped,         \* an exception left ActionExecutor.execute
  pageMutations    \* number of DOM mutations the observers have been told of

execVars ==
  <<commands, page, phase, waits, results, log, next, delayPending, batchDone, escaped,
    pageMutations>>

VARIABLES
  selectorInput,   \* a string handed to sanitizeSelector
  sanitized,       \* the selectors of successive sanitizeSelector calls on it
  validated        \* what cleanAndValidateSelector returned for it

sanVars == <<selectorInput, sanitized, validated>>

VARIABLES
  tclock,          \* the time, in ticks
  trackerActive,   \* MutationTracker.isActive
  trackerStarted,  \* start has been called
  debounceTimer,   \* the pending timeout of the debounced callback, with its arguments
  notes,           \* the calls of debouncedOnChange so far: trigger, target, time
  calls,           \* the calls of the change callback so far, each with the number
                   \* of notifications made before it
  trackConfig,     \* MutationTracker.config: mutations, clicks, changes, submits
  startsLeft,      \* the calls of MutationTracker.start the behaviour may still make
  wiring           \* the tracker's observer and listeners map, and what is
                   \* registered on document.body

trackVars == <<tclock, trackerActive, trackerStarted, debounceTimer, notes, calls,
               trackConfig, startsLeft, wiring>>

VARIABLES
  useIdleCallback, \* config.scan.useIdleCallback of the engine
  pendingScans,    \* the scans the engine has asked for that have not run yet
  scanLog,         \* the runs of the engine's scanFunction so far
  elog,            \* the results engine.execute has returned so far
  subscribers      \* UUICSEngine.subscribers

engVars == <<useIdleCallback, pendingScans, scanLog, elog, subscribers>>

\* no engine is at work
EngIdle ==
  /\ useIdleCallback = FALSE
  /\ pendingScans = <<>>
  /\ scanLog = <<>>
  /\ elog = <<>>
  /\ subscribers = {}

VARIABLES
  appState,        \* what the application holds: tracked objects, getters, capture function
  twinState,       \* a second application state, for comparison
  excludePatterns, \* StateTracker.excludePatterns
  snapshot,        \* the last snapshot captured of appState
  twinSnapshot,    \* the last snapshot captured of twinState
  beforeCapture    \* appState as it was when the last snapshot of it was asked for

stateVars == <<appState, twinState, excludePatterns, snapshot, twinSnapshot, beforeCapture>>

\* no state tracker is at work
StateIdle ==
  /\ appState = <<>>
  /\ twinState = <<>>
  /\ excludePatterns = <<>>
  /\ snapshot = <<>>
  /\ twinSnapshot = <<>>
  /\ beforeCapture = <<>>

VARIABLES
  element,         \* an element handed to DOMScanner.getElementType
  classified,      \* the type getElementType returned for it
  shown,           \* the enabled and visible fields of the element's descriptor
  derived,         \* the actions ContextAggregator.generateActions lists for it
  outcomes         \* what executing each listed action on the element answered

classVars == <<element, classified, shown, derived, outcomes>>

\* no element is being classified
ClassIdle ==
  /\ element = <<>>
  /\ classified = None
  /\ shown = <<>>
  /\ derived = None
  /\ outcomes = <<>>

VARIABLES
  engineConfig,    \* config.scan.interval and whether any config.track option is set
  isInitialized,   \* UUICSEngine.isInitialized
  scanInterval,    \* UUICSEngine.scanInterval: 0 for null, else the timer's id
  intervals,       \* the interval timers of the window that are running
  timerIds,        \* number of interval timers created so far
  initCalls,       \* the initialize() calls that have reached `await this.scan()`
  tracking,        \* MutationTracker.isActive of the engine's tracker
  destroys,        \* number of destroy() calls so far
  sinceDestroy     \* what destroy() left behind, until initialize() is called again

lifeVars == <<engineConfig, isInitialized, scanInterval, intervals, timerIds, initCalls,
              tracking, destroys, sinceDestroy>>

NotDestroyed == [def |-> FALSE, scans |-> 0, scanCalled |-> FALSE, running |-> {}]

\* no engine has been initialized or destroyed
LifeIdle ==
  /\ engineConfig = [interval |-> 0, track |-> FALSE]
  /\ isInitialized = FALSE
  /\ scanInterval = 0
  /\ intervals = {}
  /\ timerIds = 0
  /\ initCalls = <<>>
  /\ tracking = FALSE
  /\ destroys = 0
  /\ sinceDestroy = NotDestroyed

restVars == <<classVars, lifeVars>>

RestIdle == ClassIdle /\ LifeIdle

vars == <<scanVars, execVars, sanVars, trackVars, engVars, stateVars, restVars>>

NoTimer == [def |-> FALSE, due |-> 0, trigger |-> "", target |-> ""]

\* the defaults of the tracker's configuration
DefaultTrackConfig == [mutations |-> TRUE, clicks |-> TRUE, changes |-> TRUE, submits |-> TRUE]

\* new MutationTracker: observer = null, listeners = new Map(); nothing is
\* registered on, and no observer observes, document.body
NoWiring == [observer |-> FALSE, listeners |-> {}, observing |-> 0, body |-> {}, ids |-> 0]

\* no tracker has been started
TrackIdle ==
  /\ tclock = 0
  /\ trackerActive = FALSE
  /\ trackerStarted = FALSE
  /\ debounceTimer = NoTimer
  /\ notes = <<>>
  /\ calls = <<>>
  /\ trackConfig = DefaultTrackConfig
  /\ startsLeft = 1
  /\ wiring = NoWiring

\* no selector is being sanitized
SanIdle == selectorInput = <<>> /\ sanitized = <<>> /\ validated = [def |-> FALSE]

\* no executeBatch call is in progress
ExecIdle ==
  /\ commands = <<>>
  /\ page = <<>>
  /\ phase = <<>>
  /\ waits = <<>>
  /\ results = <<>>
  /\ log = <<>>
  /\ next = 1
  /\ delayPending = FALSE
  /\ batchDone = TRUE
  /\ escaped = FALSE
  /\ pageMutations = 0

Nodes == 1..NumNodes
Body == 1

\* ---------------------------------------------------------------------- DOM
\* element.children, in document order
children(n) == SelectSeq([i \in 1..NumNodes |-> i], LAMBDA m : parent[m] = n)

RECURSIVE isAncestor(_, _)
\* a is a proper ancestor of n
isAncestor(a, n) == parent[n] # 0 /\ (parent[n] = a \/ isAncestor(a, parent[n]))

RECURSIVE nodeDepth(_, _)
\* number of levels from root down to n (n in the subtree of root)
nodeDepth(root, n) == IF n = root THEN 0 ELSE 1 + nodeDepth(root, parent[n])

RECURSIVE textContentOf(_, _), textContentOfAll(_, _)
\* Node.textContent: the node's own text followed by that of its descendants
textContentOf(d, n) == d[n].text \o textContentOfAll(d, children(n))
textContentOfAll(d, kids) ==
  IF kids = <<>> THEN <<>> ELSE textContentOf(d, Head(kids)) \o textContentOfAll(d, Tail(kids))

textContent(n) == textContentOf(dom, n)

RECURSIVE splitWhitespace(_, _)
\* className.split(/\s+/).filter(c => c.length > 0)
splitWhitespace(s, cur) ==
  IF s = <<>> THEN (IF cur = <<>> THEN <<>> ELSE <<cur>>)
  ELSE IF isWhitespace(Head(s))
       THEN (IF cur = <<>> THEN <<>> ELSE <<cur>>) \o splitWhitespace(Tail(s), <<>>)
       ELSE splitWhitespace(Tail(s), Append(cur, Head(s)))

\* the class tokens of an element
classList(n) == Range(splitWhitespace(dom[n].className, <<>>))

\* the characters that may start, and that may continue, a CSS identifier
isIdentStart(c) == c \in 65..90 \/ c \in 97..122 \/ c = 95 \/ c >= 128
isIdentChar(c) == isIdentStart(c) \/ c \in 48..57 \/ c = ChDash

RECURSIVE cssParse(_, _)
\* the browser's selector parser on the selectors of the model (type, #id and
\* .class selectors, compounds, descendant combinators): the parser state after s
cssParse(s, state) ==
  IF s = <<>> THEN state
  ELSE LET c == Head(s)
           after ==
             IF state \in {"start", "afterSpace"}
               THEN (IF c \in {ChHash, ChDot} THEN "needIdent"
                     ELSE IF c = ChDash THEN "needLetter"
                     ELSE IF isIdentStart(c) THEN "ident" ELSE "error")
             ELSE IF state = "needIdent"
               THEN (IF c = ChDash THEN "needLetter"
                     ELSE IF isIdentStart(c) THEN "ident" ELSE "error")
             ELSE IF state = "needLetter"
               THEN (IF isIdentStart(c) THEN "ident" ELSE "error")
             ELSE IF state = "ident"
               THEN (IF isIdentChar(c) THEN "ident"
                     ELSE IF c \in {ChHash, ChDot} THEN "needIdent"
                     ELSE IF c = ChSpace THEN "afterSpace" ELSE "error")
             ELSE "error"
       IN cssParse(Tail(s), after)

\* testDiv.querySelector(selector) does not throw a SyntaxError
cssSyntaxValid(selector) == cssParse(selector, "start") = "ident"

\* Element.matches for the selectors of the model: ".class" and "tag"
matches(n, selector) ==
  IF selector # <<>> /\ Head(selector) = ChDot THEN Tail(selector) \in classList(n)
  ELSE toLowerCase(dom[n].tagName) = selector

RECURSIVE preorder(_), preorderAll(_)
preorder(n) == <<n>> \o preorderAll(children(n))
preorderAll(kids) ==
  IF kids = <<>> THEN <<>> ELSE preorder(Head(kids)) \o preorderAll(Tail(kids))

\* document.querySelectorAll: the matching elements in document order
querySelectorAll(selector) == SelectSeq(preorder(Body), LAMBDA n : matches(n, selector))

\* utils.isElementVisible: computed style and bounding box, given by the page
isElementVisible(n) == dom[n].visible

\* ------------------------------------------------------------------ scanner
\* DOMScanner.getElementInfo: tag, #id, .class tokens (the modelled elements
\* carry no data-* attributes), joined by blanks
getElementInfo(n) ==
  LET tagPart == <<toLowerCase(dom[n].tagName)>>
      idPart == IF dom[n].id # <<>> THEN <<(<<ChHash>> \o dom[n].id)>> ELSE <<>>
      classes == splitWhitespace(dom[n].className, <<>>)
      classPart == [i \in 1..Len(classes) |-> <<ChDot>> \o classes[i]]
  IN join(tagPart \o idPart \o classPart, ChSpace)

\* DOMScanner.getElementValue for the modelled elements: an <input> of type
\* text yields element.value, every other modelled element undefined
getElementValue(d, n) == IF d[n].tagName = s_INPUT THEN Some(d[n].value) ELSE None

\* DOMScanner.getElementText
getElementText(d, n) ==
  LET text == trim(textContentOf(d, n)) IN IF Len(text) > 0 THEN Some(text) ELSE None

\* DOMScanner.isContainer
isContainer(n) ==
  /\ toLowerCase(dom[n].tagName) \in {s_div}
  /\ Len(children(n)) > 0

\* DOMScanner.hasSignificantText
hasSignificantText(n) ==
  /\ Len(trim(textContent(n))) > 3
  /\ ~\E m \in Nodes : isAncestor(n, m) /\ toLowerCase(dom[m].tagName) = s_input

\* DOMScanner.getElementType for the modelled elements (no role, contenteditable,
\* type or click-handler attribute)
getElementType(n) ==
  LET tag == toLowerCase(dom[n].tagName) IN
  IF tag = s_input THEN "input"
  ELSE IF isContainer(n) THEN "container"
  ELSE IF hasSignificantText(n) THEN "text"
  ELSE "other"

\* DOMScanner.getElementLabel for the modelled elements (no <label>, aria-label
\* or title): the placeholder attribute, else the name attribute, else the tag name
getElementLabel(n) ==
  IF dom[n].placeholder # <<>> THEN dom[n].placeholder
  ELSE IF dom[n].name # <<>> THEN dom[n].name
  ELSE toLowerCase(dom[n].tagName)

\* DOMScanner.getRelevantAttributes: of the listed attributes the modelled
\* elements carry name and placeholder, whose values do not parse as numbers
getRelevantAttributes(n) ==
  [ name |-> IF dom[n].name # <<>> THEN Some(dom[n].name) ELSE None,
    placeholder |-> IF dom[n].placeholder # <<>> THEN Some(dom[n].placeholder) ELSE None ]

\* DOMScanner.hashElement
hashElement(n) ==
  LET value == getElementValue(dom, n)
      parts == << dom[n].tagName,
                  dom[n].id,
                  dom[n].className,
                  dom[n].name,
                  IF value.def THEN value.v ELSE <<>>,
                  trim(textContent(n)) >>
  IN hash(join(parts, ChBar))

\* --------------------------------------------------------- getElementSelector
\* const maxDepth = 5, the longest path getElementSelector builds
MaxPathDepth == 5

\* the class prefixes getElementSelector takes for utility classes
UtilityPrefixes ==
  { <<102, 108, 101, 120>>, <<103, 114, 105, 100>>, <<112, 45>>, <<109, 45>>,
    <<116, 101, 120, 116, 45>>, <<98, 103, 45>>, <<98, 111, 114, 100, 101, 114, 45>>,
    <<114, 111, 117, 110, 100, 101, 100, 45>>, <<119, 45>>, <<104, 45>>,
    <<109, 105, 110, 45>>, <<109, 97, 120, 45>>, <<103, 97, 112, 45>>,
    <<115, 112, 97, 99, 101, 45>>, <<105, 116, 101, 109, 115, 45>>,
    <<106, 117, 115, 116, 105, 102, 121, 45>>, <<97, 110, 105, 109, 97, 116, 101, 45>> }

\* cls.match(/^(flex|grid|p-|...)/)
isUtilityClass(cls) ==
  \E pre \in UtilityPrefixes : Len(pre) <= Len(cls) /\ SubSeq(cls, 1, Len(pre)) = pre

\* a selector getElementSelector returns: #id, tag[name="..."], tag.class, or a
\* path of steps joined by " > "; CSS.escape makes every part a valid token
Selector(kind, tag, arg, path) == [kind |-> kind, tag |-> tag, arg |-> arg, path |-> path]

\* one step of a path: #id, or tag with [name="..."] or :nth-of-type(k) (0: none)
Step(anchor, tag, name, nth) == [anchor |-> anchor, tag |-> tag, name |-> name, nth |-> nth]

\* the position :nth-of-type counts: among the siblings of the same tag
nthOfType(m) ==
  Cardinality({k \in Nodes : k <= m /\ parent[k] = parent[m]
                               /\ dom[k].tagName = dom[m].tagName})

stepMatches(step, m) ==
  IF step.anchor # <<>> THEN dom[m].id = step.anchor
  ELSE /\ toLowerCase(dom[m].tagName) = step.tag
       /\ step.name # <<>> => dom[m].name = step.name
       /\ step.nth # 0 => nthOfType(m) = step.nth

RECURSIVE pathMatches(_, _)
\* m matches the last step and its parents match the steps before it
pathMatches(path, m) ==
  /\ stepMatches(path[Len(path)], m)
  /\ Len(path) > 1 =>
       parent[m] # 0 /\ pathMatches(SubSeq(path, 1, Len(path) - 1), parent[m])

\* document.querySelectorAll(selector): an empty selector is a SyntaxError
selectAll(selector) ==
  IF selector.kind = "path" /\ selector.path = <<>> THEN [threw |-> TRUE, nodes |-> {}]
  ELSE [threw |-> FALSE,
        nodes |->
          {m \in Nodes :
             CASE selector.kind = "id" -> dom[m].id = selector.arg
               [] selector.kind = "name" ->
                    toLowerCase(dom[m].tagName) = selector.tag /\ dom[m].name = selector.arg
               [] selector.kind = "class" ->
                    toLowerCase(dom[m].tagName) = selector.tag /\ selector.arg \in classList(m)
               [] OTHER -> pathMatches(selector.path, m)}]

RECURSIVE buildPath(_, _, _)
\* the while loop of getElementSelector: from current upwards, to document.body,
\* to an element with an id, or to MaxPathDepth steps
buildPath(current, depth, path) ==
  IF current = 0 \/ current = Body \/ depth >= MaxPathDepth THEN path
  ELSE IF dom[current].id # <<>> THEN <<Step(dom[current].id, <<>>, <<>>, 0)>> \o path
  ELSE LET name == dom[current].name
           unique == name # <<>>
           sameTagSiblings ==
             {k \in Nodes : /\ parent[k] = parent[current]
                            /\ dom[k].tagName = dom[current].tagName
                            /\ name # <<>> => dom[k].name = name}
           nth == IF ~unique /\ parent[current] # 0 /\ Cardinality(sameTagSiblings) > 1
                  THEN Cardinality({k \in sameTagSiblings : k <= current}) ELSE 0
           longer == <<Step(<<>>, toLowerCase(dom[current].tagName), name, nth)>> \o path
       IN IF unique /\ Cardinality(selectAll(Selector("path", <<>>, <<>>, longer)).nodes) = 1
          THEN longer
          ELSE buildPath(parent[current], depth + 1, longer)

\* utils.getElementSelector (the modelled elements carry no data-* attributes)
getElementSelector(n) ==
  LET tag == toLowerCase(dom[n].tagName)
      byName == Selector("name", tag, dom[n].name, <<>>)
      classes == splitWhitespace(dom[n].className, <<>>)
      usable == SelectSeq(classes, LAMBDA cls :
                  /\ ~isUtilityClass(cls)
                  /\ Cardinality(selectAll(Selector("class", tag, cls, <<>>)).nodes) = 1)
  IN IF dom[n].id # <<>> THEN Selector("id", <<>>, dom[n].id, <<>>)
     ELSE IF dom[n].name # <<>> /\ Cardinality(selectAll(byName).nodes) = 1 THEN byName
     ELSE IF usable # <<>> THEN Selector("class", tag, Head(usable), <<>>)
     ELSE Selector("path", <<>>, <<>>, buildPath(n, 0, <<>>))

\* DOMScanner.buildUIElement; node names the element the descriptor was built
\* from, genId is the id generateId returns if the element has none
buildUIElement(n, type, genId) ==
  [ node |-> n,
    id |-> IF dom[n].id # <<>> THEN [native |-> TRUE, s |-> dom[n].id, gen |-> 0]
           ELSE [native |-> FALSE, s |-> <<>>, gen |-> genId],
    type |-> type,
    tag |-> toLowerCase(dom[n].tagName),
    selector |-> getElementSelector(n),
    label |-> getElementLabel(n),
    attributes |-> getRelevantAttributes(n),
    value |-> getElementValue(dom, n),
    text |-> getElementText(dom, n),
    visible |-> isElementVisible(n),
    enabled |-> TRUE,
    hash |-> hashElement(n),
    lastUpdated |-> now ]

NullElement ==
  [ node |-> 0, id |-> [native |-> FALSE, s |-> <<>>, gen |-> 0], type |-> "other",
    tag |-> <<>>, selector |-> Selector("path", <<>>, <<>>, <<>>), label |-> <<>>,
    attributes |-> [name |-> None, placeholder |-> None],
    value |-> None, text |-> None, visible |-> FALSE,
    enabled |-> FALSE, hash |-> <<0, 0>>, lastUpdated |-> 0 ]

NoEntry == [def |-> FALSE, element |-> NullElement, hash |-> <<0, 0>>, timestamp |-> 0]

\* DOMScanner.analyzeElement on the traversal state st: the descriptor (from the
\* cache when the stored hash matches, rebuilt and cached otherwise) is left in
\* st.analyzed
analyzeElement(n, st) ==
  LET type == getElementType(n)
      elementHash == hashElement(n)
      cached == st.cache[n]
  IN IF cached.def /\ cached.hash = elementHash
     THEN [st EXCEPT !.analyzed = [cached.element EXCEPT !.lastUpdated = now]]
     ELSE LET uiElement == buildUIElement(n, type, st.idCounter + 1)
          IN [st EXCEPT !.analyzed = uiElement,
                        !.idCounter = IF uiElement.id.native THEN @ ELSE @ + 1,
                        !.cache[n] = [def |-> TRUE, element |-> uiElement,
                                      hash |-> elementHash, timestamp |-> now]]

\* scanRecursive, "Add element if it passes all checks": elements.push(uiElement);
\* this.elementCount++
admitElementNoCount(n, st) ==
  LET st1 == analyzeElement(n, st)
  IN [st1 EXCEPT !.elements = Append(@, st1.analyzed)]

admitElement(n, st) ==
  LET st1 == analyzeElement(n, st)
  IN [st1 EXCEPT !.elements = Append(@, st1.analyzed), !.elementCount = @ + 1]

\* scanRecursive, "Check depth limit"
depthExceededOff(cfg, depth) == FALSE

depthExceeded(cfg, depth) == depth > cfg.depth

\* scanRecursive, "Check element count limit"
capReached(cfg, st) == st.elementCount >= cfg.maxElements

\* element.matches(excludeSelector) throws a SyntaxError for a selector that
\* does not parse; the loop reaches it unless an earlier selector matched
excludeSelectorThrows(cfg, n) ==
  /\ cfg.excludeSelectors.def
  /\ \E i \in 1..Len(cfg.excludeSelectors.v) :
       /\ ~cssSyntaxValid(cfg.excludeSelectors.v[i])
       /\ \A j \in 1..(i - 1) : ~matches(n, cfg.excludeSelectors.v[j])

\* the three exclusion checks of scanRecursive, each of which returns the empty list
matchesExcludeSelectors(cfg, n) ==
  /\ cfg.excludeSelectors.def
  /\ \E i \in 1..Len(cfg.excludeSelectors.v) : matches(n, cfg.excludeSelectors.v[i])

matchesExcludeElements(cfg, n) ==
  /\ cfg.excludeElements.def
  /\ toLowerCase(dom[n].tagName) \in Range(cfg.excludeElements.v)

matchesExcludePatterns(cfg, n) ==
  /\ cfg.excludePatterns.def
  /\ \E i \in 1..Len(cfg.excludePatterns.v) : regexTest(cfg.excludePatterns.v[i], getElementInfo(n))

\* the two allow-lists of scanRecursive: a failing node is skipped, its
\* children are still scanned
failsIncludeElements(cfg, n) ==
  /\ cfg.includeElements.def /\ Len(cfg.includeElements.v) > 0
  /\ toLowerCase(dom[n].tagName) \notin Range(cfg.includeElements.v)

failsIncludePatterns(cfg, n) ==
  /\ cfg.includePatterns.def /\ Len(cfg.includePatterns.v) > 0
  /\ ~\E i \in 1..Len(cfg.includePatterns.v) : regexTest(cfg.includePatterns.v[i], getElementInfo(n))

\* config.filter(element): the custom predicates of the model reject one tag,
\* and may throw on one tag
applyFilter(f, n) == toLowerCase(dom[n].tagName) # f.rejectTag

\* the call of config.filter in scanRecursive throws; it is made for a node
\* that passed the visibility check
filterThrows(cfg, n) ==
  /\ cfg.includeHidden \/ isElementVisible(n)
  /\ cfg.filter.def
  /\ toLowerCase(dom[n].tagName) = cfg.filter.v.throwTag

\* scanRecursive calls config.filter(element): a filter is configured and the
\* visibility check left shouldIncludeElement true
filterCalled(cfg, n) ==
  /\ cfg.includeHidden \/ isElementVisible(n)
  /\ cfg.filter.def

\* scanRecursive, shouldIncludeElement
shouldIncludeElement(cfg, n) ==
  /\ cfg.includeHidden \/ isElementVisible(n)
  /\ cfg.filter.def => applyFilter(cfg.filter.v, n)

RECURSIVE scanRecursive(_, _, _, _), scanChildren(_, _, _, _)
\* DOMScanner.scanRecursive; the returned elements are appended to st.elements
scanRecursive(cfg, n, depth, st) ==
  IF st.threw THEN st
  ELSE IF depthExceeded(cfg, depth) THEN st
  ELSE IF capReached(cfg, st) THEN st
  ELSE IF excludeSelectorThrows(cfg, n) THEN [st EXCEPT !.threw = TRUE]
  ELSE IF matchesExcludeSelectors(cfg, n) THEN st
  ELSE IF matchesExcludeElements(cfg, n) THEN st
  ELSE IF matchesExcludePatterns(cfg, n) THEN st
  ELSE IF failsIncludeElements(cfg, n) THEN scanChildren(cfg, children(n), depth + 1, st)
  ELSE IF failsIncludePatterns(cfg, n) THEN scanChildren(cfg, children(n), depth + 1, st)
  ELSE LET called == [st EXCEPT !.filterCalls =
                                   IF filterCalled(cfg, n) THEN @ \cup {n} ELSE @]
       IN IF filterThrows(cfg, n) THEN [called EXCEPT !.threw = TRUE]
          ELSE scanChildren(cfg, children(n), depth + 1,
                            IF shouldIncludeElement(cfg, n) THEN admitElement(n, called)
                            ELSE called)

\* the loops over element.children in scanRecursive
scanChildren(cfg, kids, depth, st) ==
  IF kids = <<>> \/ st.threw THEN st
  ELSE IF capReached(cfg, st) THEN st
  ELSE scanChildren(cfg, Tail(kids), depth, scanRecursive(cfg, Head(kids), depth, st))

RECURSIVE scanRoots(_, _, _)
\* the inner loop of DOMScanner.scan over the elements one root selector matches
scanRoots(cfg, roots, st) ==
  IF roots = <<>> \/ st.threw THEN st
  ELSE scanRoots(cfg, Tail(roots), scanRecursive(cfg, Head(roots), 0, st))

RECURSIVE scanRootSelectors(_, _, _)
\* the outer loop of DOMScanner.scan over the root selectors;
\* document.querySelectorAll throws a SyntaxError for a selector that does not parse
scanRootSelectors(cfg, selectors, st) ==
  IF selectors = <<>> \/ st.threw THEN st
  ELSE IF ~cssSyntaxValid(Head(selectors)) THEN [st EXCEPT !.threw = TRUE]
  ELSE scanRootSelectors(cfg, Tail(selectors),
                         scanRoots(cfg, querySelectorAll(Head(selectors)), st))

\* DOMScanner.scan with the merged configuration scanConfig, starting from the
\* scanner's cache c and id counter k: elementCount is reset, the roots are the
\* matches of the root selectors or else document.body
scanWith(scanConfig, c, k) ==
  LET st0 == [elements |-> <<>>, elementCount |-> 0, cache |-> c, idCounter |-> k,
              analyzed |-> NullElement, threw |-> FALSE, filterCalls |-> {}]
  IN IF scanConfig.rootSelectors.def /\ Len(scanConfig.rootSelectors.v) > 0
     THEN scanRootSelectors(scanConfig, scanConfig.rootSelectors.v, st0)
     ELSE scanRecursive(scanConfig, Body, 0, st0)

\* DOMScanner.parseSelectors on an array: trimmed, empty entries dropped
parseSelectors(input) ==
  IF ~input.def THEN None
  ELSE Some(SelectSeq([i \in 1..Len(input.v) |-> trim(input.v[i])], LAMBDA e : Len(e) > 0))

\* DOMScanner.parseElements on an array: trimmed, lower-cased, empty entries dropped
parseElements(input) ==
  IF ~input.def THEN None
  ELSE Some(SelectSeq([i \in 1..Len(input.v) |-> toLowerCase(trim(input.v[i]))],
                      LAMBDA e : Len(e) > 0))

\* DOMScanner.parsePatterns on an array
parsePatterns(input) == IF ~input.def THEN None ELSE input

FilterKeys ==
  {"rootSelectors", "excludeSelectors", "includePatterns", "excludePatterns",
   "includeElements", "excludeElements"}

\* DOMScanner.scan, "Parse selectors and patterns in override config": every
\* key of the override, and each of the six filter keys, parsed if the override
\* names it and undefined otherwise
parseOverride(configOverride) ==
  [k \in DOMAIN configOverride \cup FilterKeys |->
     IF k \in FilterKeys
     THEN (IF k \in DOMAIN configOverride /\ configOverride[k].def
           THEN (IF k \in {"rootSelectors", "excludeSelectors"}
                   THEN parseSelectors(configOverride[k])
                 ELSE IF k \in {"includeElements", "excludeElements"}
                   THEN parseElements(configOverride[k])
                 ELSE parsePatterns(configOverride[k]))
           ELSE None)
     ELSE configOverride[k]]

\* DOMScanner.scan, "Merge config override with instance config":
\* { ...this.config, ...parsedOverride }
mergeConfig(base, override) ==
  IF ~override.def THEN base
  ELSE LET parsed == parseOverride(override.v)
       IN [k \in DOMAIN base \cup DOMAIN parsed |->
             IF k \in DOMAIN parsed THEN parsed[k] ELSE base[k]]

\* ContextAggregator.aggregate called from UUICSEngine.scan's scanFunction
aggregate(elements, metadata) ==
  [ def |-> TRUE,
    elements |-> elements,
    elementCount |-> Len(elements),
    scanDepth |-> metadata.scanDepth,
    partial |-> metadata.partial ]

NoContext == [def |-> FALSE, elements |-> <<>>, elementCount |-> 0, scanDepth |-> 0,
              partial |-> FALSE]

\* no scan call has been made
NoCall == [def |-> FALSE, override |-> None, instance |-> <<>>, threw |-> FALSE]

NoScan == [def |-> FALSE, elements |-> <<>>, dom |-> <<>>, cfg |-> <<>>, filterCalls |-> {},
           call |-> NoCall]

\* ------------------------------------------------------------ scanner actions
\* DOMScanner.scan(undefined, configOverride): the traversal, with the cache and
\* the id counter it leaves behind; this.config is restored afterwards. An
\* exception raised in the traversal leaves scan before the list is returned
\* and before this.config is restored
ScannerScan(configOverride) ==
  LET scanConfig == mergeConfig(config, configOverride)
      st == scanWith(scanConfig, cache, idCounter)
  IN /\ cache' = st.cache
     /\ idCounter' = st.idCounter
     /\ scanThrew' = st.threw
     /\ IF st.threw
          THEN /\ lastScan' = [lastScan EXCEPT !.call = [def |-> TRUE, override |-> configOverride,
                                                         instance |-> config, threw |-> TRUE]]
               /\ config' = scanConfig
          ELSE /\ lastScan' = [def |-> TRUE, elements |-> st.elements, dom |-> dom,
                               cfg |-> scanConfig, filterCalls |-> st.filterCalls,
                               call |-> [def |-> TRUE, override |-> configOverride,
                                         instance |-> config, threw |-> FALSE]]
               /\ config' = config

\* UUICSEngine.scan, the scanFunction (run at once or from the idle callback):
\* scan, aggregate, replace the current context
scanFunction ==
  /\ ScannerScan(None)
  /\ currentContext' =
       IF scanThrew' THEN currentContext
       ELSE aggregate(lastScan'.elements,
                      [scanDepth |-> config.depth,
                       partial |-> Len(lastScan'.elements) >= config.maxElements])

EngineScan ==
  /\ scanFunction
  /\ UNCHANGED <<parent, dom, now, prevScan, mutations, execVars, sanVars, trackVars, engVars, stateVars, restVars>>

\* a scan that follows an earlier one, which is kept for comparison
Rescan ==
  /\ ScannerScan(None)
  /\ prevScan' = lastScan
  /\ UNCHANGED <<parent, dom, now, currentContext, mutations, execVars, sanVars, trackVars, engVars, stateVars, restVars>>

\* ------------------------------------------------------- documents and configs
BodyElement ==
  [tagName |-> s_BODY, id |-> <<>>, className |-> <<>>, name |-> <<>>, value |-> <<>>,
   text |-> <<>>, visible |-> TRUE, placeholder |-> <<>>]

DivElement == [BodyElement EXCEPT !.tagName = s_DIV]
SpanElement == [BodyElement EXCEPT !.tagName = s_SPAN]
NavElement == [BodyElement EXCEPT !.tagName = s_DIV, !.className = s_nav]
HiddenElement == [BodyElement EXCEPT !.tagName = s_DIV, !.visible = FALSE]

ScanElements == {DivElement, SpanElement, NavElement, HiddenElement}

\* the trees over Nodes in which node n hangs under n-1 or n-2
TreeShapes ==
  {p \in [Nodes -> 0..NumNodes] :
     /\ p[1] = 0
     /\ \A n \in 2..NumNodes : p[n] \in {n - 1, IF n > 2 THEN n - 2 ELSE 1}}

\* new DOMScanner(): the configuration the constructor builds when nothing is set
DefaultScannerConfig ==
  [ depth |-> 10,
    includeHidden |-> FALSE,
    rootSelectors |-> None,
    excludeSelectors |-> None,
    includePatterns |-> None,
    excludePatterns |-> None,
    includeElements |-> None,
    excludeElements |-> None,
    filter |-> None,
    maxElements |-> DefaultMaxElements ]

\* base with the fields of r set
With(base, r) == [k \in DOMAIN base |-> IF k \in DOMAIN r THEN r[k] ELSE base[k]]

\* the filter settings that are tried
FilterSets ==
  << [includeHidden |-> FALSE],
     [includeHidden |-> TRUE],
     [excludeSelectors |-> Some(<<s_dotnav>>)],
     [excludeElements |-> Some(<<s_span>>)],
     [excludePatterns |-> Some(<<s_nav>>)],
     [includeElements |-> Some(<<s_span>>)],
     [includePatterns |-> Some(<<s_nav>>)],
     [filter |-> Some([rejectTag |-> s_div, throwTag |-> <<>>])],
     [rootSelectors |-> Some(<<s_span>>)],
     [rootSelectors |-> Some(<<s_div>>)],
     [rootSelectors |-> Some(<<s_span>>), excludeSelectors |-> Some(<<s_dotnav>>)],
     [includeElements |-> Some(<<s_span>>), excludeElements |-> Some(<<s_div>>)],
     [includeElements |-> Some(<<s_span>>),
      filter |-> Some([rejectTag |-> s_div, throwTag |-> <<>>])] >>

Caps == {1, 2, DefaultMaxElements}

InitScan ==
  /\ parent \in TreeShapes
  /\ dom \in {d \in [Nodes -> ScanElements \cup {BodyElement}] :
                d[Body] = BodyElement /\ \A n \in 2..NumNodes : d[n] \in ScanElements}
  /\ \E i \in 1..Len(FilterSets), d \in 0..MaxDepth, m \in Caps :
       config = With(With(DefaultScannerConfig, FilterSets[i]),
                     [depth |-> d, maxElements |-> m])
  /\ cache = [n \in Nodes |-> NoEntry]
  /\ idCounter = 0
  /\ now = 1
  /\ lastScan = NoScan
  /\ prevScan = NoScan
  /\ currentContext = NoContext
  /\ mutations = 0
  /\ scanThrew = FALSE
  /\ ExecIdle
  /\ SanIdle
  /\ TrackIdle
  /\ EngIdle
  /\ StateIdle
  /\ RestIdle

NextScan == EngineScan

SpecScan == InitScan /\ [][NextScan]_vars

\* ---------------------------------------------- scans with any configuration
\* a selector the browser's parser rejects: div[
s_bad == <<100, 105, 118, 91>>

\* configurations and per-scan overrides beyond the filter settings above:
\* selector strings that do not parse, and a predicate that throws
CallSets ==
  FilterSets \o
  << [rootSelectors |-> Some(<<s_bad>>)],
     [excludeSelectors |-> Some(<<s_bad>>)],
     [excludeSelectors |-> Some(<<s_dotnav, s_bad>>)],
     [filter |-> Some([rejectTag |-> <<>>, throwTag |-> s_span])] >>

\* UUICSEngine.scan(undefined, configOverride), as the first call on the scanner
EngineScanWith(configOverride) ==
  /\ ~lastScan.def /\ ~scanThrew
  /\ ScannerScan(Some(configOverride))
  /\ currentContext' =
       IF scanThrew' THEN currentContext
       ELSE aggregate(lastScan'.elements,
                      [scanDepth |-> config.depth,
                       partial |-> Len(lastScan'.elements) >= config.maxElements])
  /\ UNCHANGED <<parent, dom, now, prevScan, mutations, execVars, sanVars, trackVars, engVars, stateVars, restVars>>

InitScanCall ==
  /\ parent \in TreeShapes
  /\ dom \in {d \in [Nodes -> ScanElements \cup {BodyElement}] :
                d[Body] = BodyElement /\ \A n \in 2..NumNodes : d[n] \in ScanElements}
  /\ \E i \in 1..Len(CallSets) : config = With(DefaultScannerConfig, CallSets[i])
  /\ cache = [n \in Nodes |-> NoEntry]
  /\ idCounter = 0
  /\ now = 1
  /\ lastScan = NoScan
  /\ prevScan = NoScan
  /\ currentContext = NoContext
  /\ mutations = 0
  /\ scanThrew = FALSE
  /\ ExecIdle
  /\ SanIdle
  /\ TrackIdle
  /\ EngIdle
  /\ StateIdle
  /\ RestIdle

NextScanCall ==
  \/ EngineScan
  \/ \E i \in 1..Len(CallSets) : EngineScanWith(CallSets[i])

SpecScanCall == InitScanCall /\ [][NextScanCall]_vars

\* C22: scanning never raises. For every document and every configuration or
\* per-scan override, DOMScanner.scan and engine.scan return a list of
\* descriptors and do not throw to the caller.
C22_ScanNeverThrows == ~scanThrew

\* the override names option k
names(override, k) == k \in DOMAIN override /\ override[k].def

\* C35: a per-scan override changes only the options it names: in a scan with
\* an override every filter option (rootSelectors, excludeSelectors,
\* includePatterns, excludePatterns, includeElements, excludeElements) that is
\* absent from the override keeps its instance-configured value for that scan.
C35_OverrideNamesOnly ==
  (lastScan.def /\ ~lastScan.call.threw /\ lastScan.call.override.def) =>
    \A k \in FilterKeys :
      ~names(lastScan.call.override.v, k) => lastScan.cfg[k] = lastScan.call.instance[k]

\* C36: a per-scan override never leaks into later scans: after a scan call
\* with an override has finished, by returning or by an exception that escapes
\* from the traversal, the instance configuration is what it was before the
\* call.
C36_OverrideDoesNotLeak ==
  (lastScan.call.def /\ lastScan.call.override.def) => config = lastScan.call.instance

\* ------------------------------------------------- properties of one scan
\* the nodes the descriptors of a scan were built from
scannedNodes(scan) == {scan.elements[i].node : i \in 1..Len(scan.elements)}

\* the elements a scan under cfg starts from
scanRootsOf(cfg) ==
  IF cfg.rootSelectors.def /\ Len(cfg.rootSelectors.v) > 0
  THEN {n \in Nodes : \E i \in 1..Len(cfg.rootSelectors.v) : matches(n, cfg.rootSelectors.v[i])}
  ELSE {Body}

selfOrAncestor(a, n) == a = n \/ isAncestor(a, n)

\* n, taken by itself, passes each of the seven checks of the filter pipeline
passesOwnFilters(cfg, n) ==
  /\ ~matchesExcludeSelectors(cfg, n)
  /\ ~matchesExcludeElements(cfg, n)
  /\ ~matchesExcludePatterns(cfg, n)
  /\ ~failsIncludeElements(cfg, n)
  /\ ~failsIncludePatterns(cfg, n)
  /\ shouldIncludeElement(cfg, n)

\* the same scan without an element cap: its descriptors are the qualifying
\* nodes the traversal would return if nothing were cut off
uncappedElements(scan) ==
  scanWith([scan.cfg EXCEPT !.maxElements = NumNodes * NumNodes + 1], cache, idCounter).elements

\* C5: a node excluded by its own tag or by an exclude pattern is not returned,
\* and each of its descendants that passes every filter itself, is not under an
\* exclude-selector match and lies within the depth bound is returned (scans
\* from document.body that the element cap did not cut short)
C5_ExclusionIsLocal ==
  (/\ lastScan.def
   /\ scanRootsOf(lastScan.cfg) = {Body}
   /\ Len(lastScan.elements) < lastScan.cfg.maxElements)
  => \A n \in Nodes :
       /\ (matchesExcludeElements(lastScan.cfg, n) \/ matchesExcludePatterns(lastScan.cfg, n))
            => n \notin scannedNodes(lastScan)
       /\ (/\ passesOwnFilters(lastScan.cfg, n)
           /\ nodeDepth(Body, n) <= lastScan.cfg.depth
           /\ ~\E a \in Nodes : selfOrAncestor(a, n) /\ matchesExcludeSelectors(lastScan.cfg, a)
           /\ \E a \in Nodes :
                /\ isAncestor(a, n)
                /\ matchesExcludeElements(lastScan.cfg, a) \/ matchesExcludePatterns(lastScan.cfg, a))
            => n \in scannedNodes(lastScan)

\* n fails one of the checks that are to skip the node only
failsLocalCheck(cfg, n) ==
  \/ failsIncludeElements(cfg, n)
  \/ failsIncludePatterns(cfg, n)
  \/ ~shouldIncludeElement(cfg, n)

\* n passed the six checks that come before the custom predicate
passesSixChecks(cfg, n) ==
  /\ ~matchesExcludeSelectors(cfg, n)
  /\ ~matchesExcludeElements(cfg, n)
  /\ ~matchesExcludePatterns(cfg, n)
  /\ ~failsIncludeElements(cfg, n)
  /\ ~failsIncludePatterns(cfg, n)
  /\ cfg.includeHidden \/ isElementVisible(n)

\* C30: include-list, visibility and custom-predicate failures are node-local.
\* A node that fails the includeElements list, the includePatterns list, the
\* visibility check or the custom predicate is not returned, while each of its
\* descendants that passes all filters (and lies within the depth bound, outside
\* every exclude-selector subtree) is returned; the custom predicate is called
\* only on nodes that passed the six earlier checks (scans from document.body
\* that the element cap did not cut short).
C30_InclusionIsLocal ==
  (/\ lastScan.def
   /\ scanRootsOf(lastScan.cfg) = {Body}
   /\ Len(lastScan.elements) < lastScan.cfg.maxElements)
  => /\ \A n \in Nodes :
          failsLocalCheck(lastScan.cfg, n)
            => /\ n \notin scannedNodes(lastScan)
               /\ \A d \in Nodes :
                    (/\ isAncestor(n, d)
                     /\ passesOwnFilters(lastScan.cfg, d)
                     /\ nodeDepth(Body, d) <= lastScan.cfg.depth
                     /\ ~\E a \in Nodes :
                          selfOrAncestor(a, d) /\ matchesExcludeSelectors(lastScan.cfg, a))
                    => d \in scannedNodes(lastScan)
     /\ \A n \in lastScan.filterCalls : passesSixChecks(lastScan.cfg, n)

\* C6: no returned descriptor is built from a node that matches an exclude
\* selector or lies below such a node, root selectors or not
C6_ExcludeSelectorPrunes ==
  lastScan.def
  => \A n \in scannedNodes(lastScan) :
       ~\E a \in Nodes : selfOrAncestor(a, n) /\ matchesExcludeSelectors(lastScan.cfg, a)

C8_PartialIffTruncated ==
  currentContext.def
  => (currentContext.partial
        <=> Len(uncappedElements(lastScan)) > Len(lastScan.elements))

\* C9: every descriptor comes from a node at most cfg.depth levels below a
\* scan root, whatever was skipped on the way down
C9_DepthBound ==
  lastScan.def
  => \A n \in scannedNodes(lastScan) :
       \E r \in scanRootsOf(lastScan.cfg) :
         selfOrAncestor(r, n) /\ nodeDepth(r, n) <= lastScan.cfg.depth

\* a scan from body that returned a node exactly at the depth bound, below a
\* skipped ancestor, and left out a node that passes the filters one level deeper
C9_Witness ==
  /\ lastScan.def
  /\ scanRootsOf(lastScan.cfg) = {Body}
  /\ lastScan.cfg.depth >= 1
  /\ \E n \in scannedNodes(lastScan), m \in Nodes :
       /\ nodeDepth(Body, n) = lastScan.cfg.depth
       /\ parent[n] \notin scannedNodes(lastScan)
       /\ parent[m] = n
       /\ passesOwnFilters(lastScan.cfg, m)
       /\ m \notin scannedNodes(lastScan)
       /\ Len(lastScan.elements) < lastScan.cfg.maxElements

\* ------------------------------------------------ the page mutates, rescans
InputElement == [BodyElement EXCEPT !.tagName = s_INPUT]

ClassNames == {<<>>, s_Aa, s_BB}
Texts == {<<>>, s_Aa, s_BB}
Values == {<<>>, s_hello}

\* the page sets element.className
SetClassName(n, c) ==
  /\ mutations < MaxMutations
  /\ c # dom[n].className
  /\ dom' = [dom EXCEPT ![n].className = c]
  /\ mutations' = mutations + 1
  /\ scanThrew' = scanThrew
  /\ UNCHANGED <<parent, config, cache, idCounter, now, lastScan, prevScan, currentContext,
                 execVars, sanVars, trackVars, engVars, stateVars, restVars>>

\* the page replaces the text of an element
SetText(n, t) ==
  /\ mutations < MaxMutations
  /\ dom[n].tagName # s_INPUT
  /\ t # dom[n].text
  /\ dom' = [dom EXCEPT ![n].text = t]
  /\ mutations' = mutations + 1
  /\ scanThrew' = scanThrew
  /\ UNCHANGED <<parent, config, cache, idCounter, now, lastScan, prevScan, currentContext,
                 execVars, sanVars, trackVars, engVars, stateVars, restVars>>

\* the user (or the page) changes the value of an input
SetInputValue(n, v) ==
  /\ mutations < MaxMutations
  /\ dom[n].tagName = s_INPUT
  /\ v # dom[n].value
  /\ dom' = [dom EXCEPT ![n].value = v]
  /\ mutations' = mutations + 1
  /\ scanThrew' = scanThrew
  /\ UNCHANGED <<parent, config, cache, idCounter, now, lastScan, prevScan, currentContext,
                 execVars, sanVars, trackVars, engVars, stateVars, restVars>>

\* the page sets the placeholder attribute of an input
SetPlaceholder(n, t) ==
  /\ mutations < MaxMutations
  /\ dom[n].tagName = s_INPUT
  /\ t # dom[n].placeholder
  /\ dom' = [dom EXCEPT ![n].placeholder = t]
  /\ mutations' = mutations + 1
  /\ scanThrew' = scanThrew
  /\ UNCHANGED <<parent, config, cache, idCounter, now, lastScan, prevScan, currentContext,
                 execVars, sanVars, trackVars, engVars, stateVars, restVars>>

\* time passes
Tick ==
  /\ now < MaxClock
  /\ now' = now + 1
  /\ UNCHANGED <<parent, dom, config, cache, idCounter, lastScan, prevScan, currentContext,
                 mutations, scanThrew, execVars, sanVars, trackVars, engVars, stateVars, restVars>>

\* a document of divs whose last node is a text input, scanned with the
\* default configuration
InitCache ==
  /\ parent \in TreeShapes
  /\ dom = [n \in Nodes |-> IF n = Body THEN BodyElement
                            ELSE IF n = NumNodes THEN InputElement
                            ELSE DivElement]
  /\ config = DefaultScannerConfig
  /\ cache = [n \in Nodes |-> NoEntry]
  /\ idCounter = 0
  /\ now = 1
  /\ lastScan = NoScan
  /\ prevScan = NoScan
  /\ currentContext = NoContext
  /\ mutations = 0
  /\ scanThrew = FALSE
  /\ ExecIdle
  /\ SanIdle
  /\ TrackIdle
  /\ EngIdle
  /\ StateIdle
  /\ RestIdle

NextCache ==
  \/ Rescan
  \/ Tick
  \/ \E n \in Nodes \ {Body} :
       \/ \E c \in ClassNames : SetClassName(n, c)
       \/ \E t \in Texts : SetText(n, t)
       \/ \E v \in Values : SetInputValue(n, v)
       \/ \E t \in Texts : SetPlaceholder(n, t)

SpecCache == InitCache /\ [][NextCache]_vars

\* n's class, value or text differs between the documents d1 and d2
contentChanged(d1, d2, n) ==
  \/ d1[n].className # d2[n].className
  \/ getElementValue(d1, n) # getElementValue(d2, n)
  \/ trim(textContentOf(d1, n)) # trim(textContentOf(d2, n))

\* C10: a rescan of an unchanged document returns descriptors equal to the
\* previous scan's in every field but lastUpdated; a node whose class, value or
\* text changed since the previous scan gets a rebuilt descriptor with a
\* different hash and the new value and text
C10_CacheCorrect ==
  (lastScan.def /\ prevScan.def)
  => \A i \in 1..Len(lastScan.elements), j \in 1..Len(prevScan.elements) :
       LET e == lastScan.elements[i]
           p == prevScan.elements[j]
       IN e.node = p.node
          => /\ lastScan.dom = prevScan.dom
                  => [e EXCEPT !.lastUpdated = 0] = [p EXCEPT !.lastUpdated = 0]
             /\ contentChanged(prevScan.dom, lastScan.dom, e.node)
                  => /\ e.hash # p.hash
                     /\ e.value = getElementValue(lastScan.dom, e.node)
                     /\ e.text = getElementText(lastScan.dom, e.node)

\* C26: stable descriptor id. For a node that remains in the document, the id
\* of its descriptor is the same in every scan (the native id attribute if
\* present, otherwise one generated id), whatever changes the node's content
\* underwent between the scans.
C26_StableId ==
  (lastScan.def /\ prevScan.def)
  => \A i \in 1..Len(lastScan.elements), j \in 1..Len(prevScan.elements) :
       LET e == lastScan.elements[i]
           p == prevScan.elements[j]
       IN e.node = p.node => e.id = p.id

\* C12: selector round trip. For every descriptor of the scan that just
\* returned, querying the document with descriptor.selector yields exactly one
\* node, the one the descriptor was built from.
C12_SelectorRoundTrip ==
  (lastScan.def /\ dom = lastScan.dom)
  => \A i \in 1..Len(lastScan.elements) :
       LET e == lastScan.elements[i]
           found == selectAll(e.selector)
       IN ~found.threw /\ found.nodes = {e.node}

\* the descriptors a scanner with an empty cache builds for the current document
freshElements(scan) == scanWith(scan.cfg, [n \in Nodes |-> NoEntry], 0).elements

\* C11: no cache staleness. Right after a scan, whatever mutations and scans
\* came before it, every descriptor the caching scanner returned has the value,
\* label and attributes that a scanner with an empty cache builds for the same
\* document.
C11_NoStaleness ==
  (lastScan.def /\ dom = lastScan.dom)
  => /\ Len(lastScan.elements) = Len(freshElements(lastScan))
     /\ \A i \in 1..Len(lastScan.elements) :
          LET e == lastScan.elements[i]
              f == freshElements(lastScan)[i]
          IN /\ e.node = f.node
             /\ e.value = f.value
             /\ e.label = f.label
             /\ e.attributes = f.attributes

\* --------------------------------------------------------- selector sanitizer
DashChars == {ChEnDash, ChDash, 9, 10, 32}
QuoteChars == {ChQuote, ChApostrophe}

RECURSIVE removeEscapedQuotes(_)
\* cleaned.replace(/\\["']/g, '')
removeEscapedQuotes(s) ==
  IF s = <<>> THEN <<>>
  ELSE IF Len(s) >= 2 /\ s[1] = ChBackslash /\ s[2] \in QuoteChars
       THEN removeEscapedQuotes(SubSeq(s, 3, Len(s)))
       ELSE <<Head(s)>> \o removeEscapedQuotes(Tail(s))

RECURSIVE collapseSpaces(_)
\* cleaned.replace(/\s{2,}/g, ' ')
collapseSpaces(s) ==
  IF s = <<>> THEN <<>>
  ELSE IF Len(s) >= 2 /\ isWhitespace(s[1]) /\ isWhitespace(s[2])
       THEN <<ChSpace>> \o collapseSpaces(stripLeading(s, {9, 10, 32}))
       ELSE <<Head(s)>> \o collapseSpaces(Tail(s))

\* sanitizeSelector(selector).selector
sanitizeSelector(selector) ==
  LET trimmed == trim(selector)
      noDashes == stripTrailing(stripLeading(trimmed, DashChars), DashChars)
      noQuotes == stripTrailing(stripLeading(noDashes, QuoteChars), QuoteChars)
      noEscapes == removeEscapedQuotes(noQuotes)
      collapsed == collapseSpaces(noEscapes)
  IN trim(collapsed)

s_ACTION == <<65, 67, 84, 73, 79, 78, 58>>

\* validateSelector(selector).valid
validateSelector(selector) ==
  /\ selector # <<>> /\ trim(selector) # <<>>
  /\ ~(\A i \in 1..Len(selector) : selector[i] \in DashChars)
  /\ ~(\A i \in 1..Len(selector) : selector[i] \in QuoteChars)
  /\ ~(\E i \in 1..(Len(selector) - 2) :
         isWhitespace(selector[i]) /\ selector[i + 1] = ChEnDash /\ isWhitespace(selector[i + 2]))
  /\ ~(Len(selector) >= 7 /\ SubSeq(selector, 1, 7) = s_ACTION)
  /\ cssSyntaxValid(selector)

\* cleanAndValidateSelector(selector): success and the cleaned selector
cleanAndValidateSelector(selector) ==
  LET cleaned == sanitizeSelector(selector)
  IN IF validateSelector(cleaned)
     THEN [success |-> TRUE, selector |-> cleaned]
     ELSE [success |-> FALSE, selector |-> cleaned]

\* ----------------------------------------------------------- sanitizer runs
\* the characters the sanitized strings are made of: blank, dash, double quote,
\* backslash, a letter and the hash sign
SelectorChars == {ChSpace, ChDash, ChQuote, ChBackslash, ChHash, 97}

SelectorInputs == UNION {[1..k -> SelectorChars] : k \in 0..MaxLen}

\* no scanner is at work
ScanIdle ==
  /\ parent = [n \in Nodes |-> n - 1]
  /\ dom = [n \in Nodes |-> IF n = Body THEN BodyElement ELSE DivElement]
  /\ config = DefaultScannerConfig
  /\ cache = [n \in Nodes |-> NoEntry]
  /\ idCounter = 0
  /\ now = 1
  /\ lastScan = NoScan
  /\ prevScan = NoScan
  /\ currentContext = NoContext
  /\ mutations = 0
  /\ scanThrew = FALSE

\* sanitizeSelector is called on the input, then on the selector it returned
Sanitize ==
  /\ Len(sanitized) < 2
  /\ sanitized' = Append(sanitized,
                         sanitizeSelector(IF sanitized = <<>> THEN selectorInput
                                          ELSE sanitized[Len(sanitized)]))
  /\ UNCHANGED <<selectorInput, validated, scanVars, execVars, trackVars, engVars, stateVars, restVars>>

InitSanitize ==
  /\ selectorInput \in SelectorInputs
  /\ sanitized = <<>>
  /\ validated = [def |-> FALSE]
  /\ ScanIdle
  /\ ExecIdle
  /\ TrackIdle
  /\ EngIdle
  /\ StateIdle
  /\ RestIdle

NextSanitize == Sanitize

SpecSanitize == InitSanitize /\ [][NextSanitize]_vars

\* C13: sanitizer idempotence. Sanitizing the selector that sanitizeSelector
\* returned gives that selector again.
C13_SanitizerIdempotent ==
  Len(sanitized) = 2 => sanitized[2] = sanitized[1]

\* ------------------------------------------------------ sanitize and validate
\* the strings cleanAndValidateSelector is tried on: every string of up to
\* MaxLen characters of ValidateChars, alone and between the listed ends
ValidateChars ==
  {ChSpace, ChDash, ChEnDash, ChEmDash, ChQuote, ChApostrophe, ChBackslash, 97}

Prefixes ==
  { <<>>, <<97>>, s_ACTION, <<ChQuote>> \o s_ACTION, <<ChDash, ChSpace>> \o s_ACTION,
    <<97>> \o s_ACTION }

Suffixes == { <<>>, <<97>> }

ValidateInputs ==
  { pre \o mid \o post :
      pre \in Prefixes, post \in Suffixes,
      mid \in UNION {[1..k -> ValidateChars] : k \in 0..MaxLen} }

\* a caller (findElement, execute) cleans and validates a selector
CleanAndValidate ==
  /\ ~validated.def
  /\ sanitized' = <<sanitizeSelector(selectorInput)>>
  /\ validated' = [def |-> TRUE,
                    success |-> cleanAndValidateSelector(selectorInput).success,
                    selector |-> cleanAndValidateSelector(selectorInput).selector]
  /\ UNCHANGED <<selectorInput, scanVars, execVars, trackVars, engVars, stateVars, restVars>>

InitValidate ==
  /\ selectorInput \in ValidateInputs
  /\ sanitized = <<>>
  /\ validated = [def |-> FALSE]
  /\ ScanIdle
  /\ ExecIdle
  /\ TrackIdle
  /\ EngIdle
  /\ StateIdle
  /\ RestIdle

NextValidate == CleanAndValidate

SpecValidate == InitValidate /\ [][NextValidate]_vars

\* the kinds of cleaned input that are to be rejected
onlyOf(s, chars) == s # <<>> /\ \A i \in 1..Len(s) : s[i] \in chars
blank(s) == \A i \in 1..Len(s) : isWhitespace(s[i])
dashFlanked(s) ==
  \E i \in 1..(Len(s) - 2) :
    isWhitespace(s[i]) /\ s[i + 1] \in {ChEnDash, ChEmDash} /\ isWhitespace(s[i + 2])
beginsWith(s, prefix) == Len(s) >= Len(prefix) /\ SubSeq(s, 1, Len(prefix)) = prefix

\* C29: sanitizer rejection. cleanAndValidateSelector returns success = false
\* for every raw input that, after cleaning, is empty or whitespace, consists
\* only of dashes or only of quote characters, contains an en dash or an em
\* dash flanked by spaces, or begins with the prefix 'ACTION:'.
C29_SanitizerRejects ==
  validated.def =>
    LET cleaned == sanitized[1] IN
    (\/ blank(cleaned)
     \/ onlyOf(cleaned, {ChDash, ChEnDash})
     \/ onlyOf(cleaned, {ChQuote, ChApostrophe})
     \/ dashFlanked(cleaned)
     \/ beginsWith(cleaned, s_ACTION))
    => ~validated.success

\* ------------------------------------------------------- the executor's page
\* the elements of the page the executor acts on, in document order
PageOrder == <<"b", "d", "a", "i", "c", "u", "s", "f", "g", "h", "k", "t">>
PageElements == Range(PageOrder)
NullTarget == "null"

\* the static side of each element: tag, type, id and the attributes the
\* executor reads
elementInfo(e) ==
  LET base == [tag |-> "div", type |-> "", id |-> <<>>, disabled |-> FALSE,
               ariaDisabled |-> FALSE, multiple |-> FALSE, options |-> <<>>,
               hasSubmitButton |-> FALSE, preventsSubmit |-> FALSE,
               namedSubmit |-> FALSE]
  IN CASE e = "b" -> [base EXCEPT !.tag = "button", !.id = <<98>>]
       [] e = "d" -> [base EXCEPT !.tag = "button", !.id = <<100>>, !.disabled = TRUE]
       [] e = "a" -> [base EXCEPT !.tag = "div", !.id = <<97>>, !.ariaDisabled = TRUE]
       [] e = "i" -> [base EXCEPT !.tag = "input", !.type = "text", !.id = <<105>>]
       [] e = "c" -> [base EXCEPT !.tag = "input", !.type = "checkbox", !.id = <<99>>]
       [] e = "u" -> [base EXCEPT !.tag = "input", !.type = "file", !.id = <<117>>]
       [] e = "s" -> [base EXCEPT !.tag = "select", !.id = <<115>>, !.multiple = TRUE,
                                  !.options = <<(<<97>>), (<<98>>)>>]
       [] e = "f" -> [base EXCEPT !.tag = "form", !.id = <<102>>, !.hasSubmitButton = TRUE]
       [] e = "g" -> [base EXCEPT !.tag = "form", !.id = <<103>>, !.preventsSubmit = TRUE]
       [] e = "h" -> [base EXCEPT !.tag = "form", !.id = <<104>>]
       [] e = "k" -> [base EXCEPT !.tag = "form", !.id = <<107>>, !.namedSubmit = TRUE]
       [] e = "t" -> [base EXCEPT !.tag = "textarea", !.id = <<116>>, !.disabled = TRUE]

\* document.querySelector for the selectors the page can answer: #id
querySelector(selector) ==
  IF \E e \in PageElements : selector = <<ChHash>> \o elementInfo(e).id
  THEN CHOOSE e \in PageElements : selector = <<ChHash>> \o elementInfo(e).id
  ELSE NullTarget

InitialPage ==
  [e \in PageElements |-> [value |-> <<>>, checked |-> FALSE, selected |-> {}]]

\* ----------------------------------------------------- commands and results
\* JavaScript values a command carries in parameters.value
V_undefined == [t |-> "undefined", s |-> <<>>, a |-> <<>>]
V_null == [t |-> "null", s |-> <<>>, a |-> <<>>]
V_string(str) == [t |-> "string", s |-> str, a |-> <<>>]
V_number(digits) == [t |-> "number", s |-> digits, a |-> <<>>]
V_boolean(b) ==
  [t |-> "boolean", s |-> IF b THEN <<116, 114, 117, 101>> ELSE <<102, 97, 108, 115, 101>>,
   a |-> <<>>]
s_NaN == <<78, 97, 78>>
V_array(arr) == [t |-> "array", s |-> <<>>, a |-> arr]

\* String(value)
toString(value) ==
  CASE value.t = "undefined" -> <<117, 110, 100, 101, 102, 105, 110, 101, 100>>
    [] value.t = "null" -> <<110, 117, 108, 108>>
    [] value.t = "array" -> join(value.a, 44)
    [] OTHER -> value.s

\* !value
isFalsy(value) ==
  \/ value.t \in {"undefined", "null"}
  \/ value.t = "string" /\ value.s = <<>>
  \/ value.t = "number" /\ value.s \in {<<48>>, s_NaN}
  \/ value.t = "boolean" /\ value = V_boolean(FALSE)

NoError == [def |-> FALSE, text |-> "", selector |-> <<>>, original |-> <<>>]
ErrorText(text) == [def |-> TRUE, text |-> text, selector |-> <<>>, original |-> <<>>]

\* the ActionResult literals of ActionExecutor
\* (data holds the values of data.values; <<>> where a result has none)
failure(message, error) ==
  [success |-> FALSE, message |-> message, error |-> error, data |-> <<>>]
success(message) ==
  [success |-> TRUE, message |-> message, error |-> NoError, data |-> <<>>]

\* an outcome of running code: it returns a result at once, suspends in the
\* settle wait and returns the result after it, or throws
\* (raised records that an exception was raised on the way)
returns(result, pg, events) ==
  [kind |-> "return", result |-> result, page |-> pg, events |-> events, exc |-> "",
   raised |-> FALSE]
awaits(result, pg, events) ==
  [kind |-> "await", result |-> result, page |-> pg, events |-> events, exc |-> "",
   raised |-> FALSE]
throws(exc, pg, events) ==
  [kind |-> "throw", result |-> success(""), page |-> pg, events |-> events, exc |-> exc,
   raised |-> TRUE]

\* the catch block every executeX method wraps its body in:
\* error instanceof Error ? error.message : String(error)
actionCatch(message, outcome) ==
  IF outcome.kind = "throw"
  THEN [returns(failure(message, ErrorText(outcome.exc)), outcome.page, outcome.events)
          EXCEPT !.raised = TRUE]
  ELSE outcome

\* ActionExecutor.validateCommand
validateCommand(command) ==
  IF command.action = "" THEN [valid |-> FALSE, error |-> "Action type is required"]
  ELSE IF (~command.target.def \/ command.target.v = <<>>)
          /\ (~command.script.def \/ command.script.v = "")
    THEN [valid |-> FALSE, error |-> "Target selector or script is required"]
  ELSE [valid |-> TRUE, error |-> ""]

\* ActionExecutor.findElement: the element, and the query of the live
\* document it made to find it (none for a selector that does not validate)
findElement(selector) ==
  LET cleaned == cleanAndValidateSelector(selector)
  IN IF ~cleaned.success THEN [element |-> NullTarget, events |-> <<>>]
     ELSE [element |-> querySelector(cleaned.selector), events |-> <<"documentQuery">>]

\* what an outcome's code did comes after what was done before it ran
precededBy(events, outcome) == [outcome EXCEPT !.events = events \o @]

\* HTMLElement.click(): a disabled form control dispatches nothing, every other
\* element gets a click event
click(e) ==
  IF elementInfo(e).disabled
     /\ elementInfo(e).tag \in {"button", "input", "select", "textarea"}
  THEN <<>> ELSE <<"click">>

\* ActionExecutor.executeClick
executeClick(e, pg) ==
  LET info == elementInfo(e) IN
  actionCatch("Click failed",
    IF info.tag \in {"button", "input"} /\ info.disabled
      THEN returns(failure("Click failed: element is disabled",
                           ErrorText("Target element is disabled and cannot be clicked")),
                   pg, <<>>)
    ELSE IF info.ariaDisabled
      THEN returns(failure("Click failed: element is disabled (aria-disabled)",
                           ErrorText("Target element has aria-disabled=true")), pg, <<>>)
    ELSE awaits(success("Click executed successfully"),
                IF info.type = "checkbox" THEN [pg EXCEPT ![e].checked = ~@] ELSE pg,
                click(e)))

\* the steps of a setValue on the element, in the order the code takes them:
\* the native value setter, then the input and the change event
setValueEventsChangeFirst == <<"nativeSet", "change", "input">>

setValueEvents == <<"nativeSet", "input", "change">>

\* new Event(type, { bubbles: true }): the events the executor dispatches
\* with the bubbles flag
bubbles(ev) == ev \in {"input", "change", "submit", "mouseenter", "mouseover"}

\* ActionExecutor.executeSetValue; the native value setter of a file input
\* throws for a non-empty string
executeSetValue(e, value, pg) ==
  LET info == elementInfo(e) IN
  actionCatch("setValue failed",
    IF isFalsy(value) /\ ~(value.t = "string" /\ value.s = <<>>)
                      /\ ~(value.t = "number" /\ value.s = <<48>>)
      THEN returns(failure("Value is required",
                           ErrorText("No value provided for setValue action")), pg, <<>>)
    ELSE IF info.tag \in {"input", "textarea"}
      THEN (IF info.type = "file" /\ toString(value) # <<>>
              THEN throws("InvalidStateError", pg, <<>>)
              ELSE awaits(success("Value set successfully"),
                          [pg EXCEPT ![e].value = toString(value)],
                          setValueEvents))
    ELSE returns(failure("Element is not a text input",
                         ErrorText("Target element does not support setValue")), pg, <<>>))

\* new Event('submit', {bubbles: true, cancelable: true}) is the one event the
\* executor creates as cancelable
cancelable(ev) == ev = "submit"

\* element.submit(): the property lookup on a form finds a control whose name
\* is "submit" before the method, and calling that control is a TypeError
submitIfDispatched(info, pg) ==
  IF info.preventsSubmit
    THEN awaits(success("Form submitted successfully"), pg, <<"submit">>)
  ELSE IF info.namedSubmit
    THEN throws("TypeError", pg, <<"submit">>)
  ELSE awaits(success("Form submitted successfully"), pg, <<"submit", "nativeSubmit">>)

\* ActionExecutor.executeSubmit
executeSubmit(e, pg) ==
  LET info == elementInfo(e) IN
  actionCatch("Submit failed",
    IF info.tag = "form"
      THEN (IF info.hasSubmitButton
              THEN awaits(success("Form submitted successfully"), pg, <<"buttonClick">>)
            ELSE submitIfDispatched(info, pg))
    ELSE returns(failure("Element is not a form",
                         ErrorText("Target element is not a form element")), pg, <<>>))

\* the first loop of the multi-select branch: options[i].selected = false
keepSelections(selected) == selected

clearSelections(selected) == {}

\* the second loop of the multi-select branch, for one requested value: every
\* option whose value is String(val) is selected and the value is pushed
optionsMatching(options, stringVal) ==
  {i \in 1..Len(options) : options[i] = stringVal}
RECURSIVE pushMatches(_, _, _)
pushMatches(options, stringVal, i) ==
  IF i > Len(options) THEN <<>>
  ELSE (IF options[i] = stringVal THEN <<stringVal>> ELSE <<>>)
       \o pushMatches(options, stringVal, i + 1)
RECURSIVE selectValues(_, _, _)
selectValues(options, requested, k) ==
  IF k > Len(requested) THEN [selected |-> {}, selectedValues |-> <<>>]
  ELSE LET rest == selectValues(options, requested, k + 1)
       IN [selected |-> optionsMatching(options, requested[k]) \cup rest.selected,
           selectedValues |-> pushMatches(options, requested[k], 1) \o rest.selectedValues]

\* ActionExecutor.executeSelect
executeSelect(e, value, pg) ==
  LET info == elementInfo(e) IN
  actionCatch("Select failed",
    IF info.tag = "select"
      THEN (IF info.multiple /\ value.t = "array"
              THEN LET chosen == selectValues(info.options, value.a, 1)
                   IN awaits([success("Multiple options selected successfully")
                                EXCEPT !.data = chosen.selectedValues],
                             [pg EXCEPT ![e].selected =
                                clearSelections(@) \cup chosen.selected],
                             <<"input", "change">>)
              ELSE awaits(success("Option selected successfully"),
                          [pg EXCEPT ![e].value = toString(value)],
                          <<"nativeSet", "input", "change">>))
    ELSE IF info.tag = "input" /\ info.type = "radio"
      THEN awaits(success("Radio button selected"), [pg EXCEPT ![e].checked = TRUE],
                  <<"change">>)
    ELSE returns(failure("Element is not selectable",
                         ErrorText("Target element does not support select action")), pg, <<>>))

\* ActionExecutor.executeCheck
executeCheck(e, checked, pg) ==
  LET info == elementInfo(e) IN
  actionCatch("Check/uncheck failed",
    IF info.tag = "input" /\ info.type \in {"checkbox", "radio"}
      THEN awaits(success(IF checked THEN "Checkbox checked successfully"
                          ELSE "Checkbox unchecked successfully"),
                  [pg EXCEPT ![e].checked = checked], <<"change">>)
    ELSE returns(failure("Element is not a checkbox",
                         ErrorText("Target element is not a checkbox or radio button")),
                 pg, <<>>))

\* ActionExecutor.executeFocus, executeScroll, executeHover
executeFocus(e, pg) ==
  actionCatch("Focus failed", returns(success("Element focused successfully"), pg, <<"focus">>))
executeScroll(e, pg) ==
  actionCatch("Scroll failed",
              returns(success("Scrolled to element successfully"), pg, <<"scrollIntoView">>))
executeHover(e, pg) ==
  actionCatch("Hover failed",
              returns(success("Hover executed successfully"), pg, <<"mouseenter", "mouseover">>))

\* ActionExecutor.executeCustomScript: new Function('element', script)(element);
\* the scripts of the model return, throw an Error or throw a string
executeCustomScript(script, e, pg) ==
  actionCatch("Custom script execution failed",
    IF script = "return" THEN returns(success("Custom script executed successfully"), pg, <<"script">>)
    ELSE IF script = "throwError" THEN throws("boom", pg, <<"script">>)
    ELSE throws("thrown string", pg, <<"script">>))

\* the named action is looked up first, the script only for an unknown action
executeActionNamedFirst(command, e, pg) ==
  CASE command.action = "click" -> executeClick(e, pg)
    [] command.action = "setValue" -> executeSetValue(e, command.value, pg)
    [] command.action = "submit" -> executeSubmit(e, pg)
    [] command.action = "select" -> executeSelect(e, command.value, pg)
    [] command.action = "check" -> executeCheck(e, TRUE, pg)
    [] command.action = "uncheck" -> executeCheck(e, FALSE, pg)
    [] command.action = "focus" -> executeFocus(e, pg)
    [] command.action = "scroll" -> executeScroll(e, pg)
    [] command.action = "hover" -> executeHover(e, pg)
    [] OTHER -> IF command.script.def /\ command.script.v # ""
                  THEN executeCustomScript(command.script.v, e, pg)
                ELSE returns(failure("Unknown action type",
                                     ErrorText("Action type is not supported")), pg, <<>>)

\* ActionExecutor.executeAction
executeAction(command, e, pg) ==
  IF command.script.def /\ command.script.v # ""
    THEN executeCustomScript(command.script.v, e, pg)
  ELSE CASE command.action = "click" -> executeClick(e, pg)
         [] command.action = "setValue" -> executeSetValue(e, command.value, pg)
         [] command.action = "submit" -> executeSubmit(e, pg)
         [] command.action = "select" -> executeSelect(e, command.value, pg)
         [] command.action = "check" -> executeCheck(e, TRUE, pg)
         [] command.action = "uncheck" -> executeCheck(e, FALSE, pg)
         [] command.action = "focus" -> executeFocus(e, pg)
         [] command.action = "scroll" -> executeScroll(e, pg)
         [] command.action = "hover" -> executeHover(e, pg)
         [] OTHER -> returns(failure("Unknown action type",
                                     ErrorText("Action type is not supported")), pg, <<>>)

\* the 'Target element not found' result of ActionExecutor.execute
targetNotFoundNoError(selector, original) == [success |-> FALSE, message |-> "Target element not found", error |-> NoError, data |-> <<>>]

targetNotFoundSanitizedOnly(selector, original) ==
  failure("Target element not found",
          [def |-> TRUE, text |-> "No element matching selector", selector |-> selector,
           original |-> selector])

targetNotFound(selector, original) ==
  failure("Target element not found",
          [def |-> TRUE, text |-> "No element matching selector", selector |-> selector,
           original |-> original])

\* the try block of ActionExecutor.execute; reading a property of a null
\* command, and trimming an undefined target in sanitizeSelector, throw a TypeError
executeBody(command, pg) ==
  IF command.isNull THEN throws("TypeError", pg, <<>>)
  ELSE LET validation == validateCommand(command) IN
  IF ~validation.valid
    THEN returns(failure("Command validation failed", ErrorText(validation.error)), pg, <<>>)
  ELSE IF ~command.target.def THEN throws("TypeError", pg, <<>>)
  ELSE LET selectorValidation == cleanAndValidateSelector(command.target.v) IN
  IF ~selectorValidation.success
    THEN returns(failure("Invalid selector",
                         [def |-> TRUE, text |-> "Invalid selector",
                          selector |-> selectorValidation.selector,
                          original |-> command.target.v]), pg, <<>>)
  ELSE LET found == findElement(command.target.v) IN
  IF found.element = NullTarget
    THEN returns(targetNotFound(selectorValidation.selector, command.target.v), pg,
                 found.events)
  ELSE precededBy(found.events, executeAction(command, found.element, pg))

\* the catch block of ActionExecutor.execute
executeRethrow(outcome) == outcome

executeCatch(outcome) ==
  IF outcome.kind = "throw"
  THEN [returns(failure("Action execution failed", ErrorText(outcome.exc)),
                outcome.page, outcome.events) EXCEPT !.raised = TRUE]
  ELSE outcome

\* ActionExecutor.execute up to its return or its suspension in the settle wait
execute(command, pg) == executeCatch(executeBody(command, pg))

\* ------------------------------------------------------------ executeBatch
\* the commands a batch is made of: every action type and every stage a
\* command can fail at
Command(action, target, value, script) ==
  [isNull |-> FALSE, action |-> action, target |-> target, value |-> value,
   script |-> script]
NullCommand == [Command("", None, V_undefined, None) EXCEPT !.isNull = TRUE]

sel_b == <<ChHash, 98>>
sel_i == <<ChHash, 105>>
sel_missing == <<ChHash, 122, 122>>
sel_dashes == <<ChDash, ChDash, ChDash>>
sel_quoted_b == <<ChSpace, ChQuote, ChHash, 98, ChQuote, ChSpace>>

CommandPool ==
  << NullCommand,
     Command("", Some(sel_b), V_undefined, None),
     Command("click", None, V_undefined, None),
     Command("click", None, V_undefined, Some("return")),
     Command("click", Some(sel_dashes), V_undefined, None),
     Command("click", Some(sel_missing), V_undefined, None),
     Command("click", Some(sel_b), V_undefined, None),
     Command("click", Some(sel_quoted_b), V_undefined, None),
     Command("click", Some(<<ChHash, 100>>), V_undefined, None),
     Command("click", Some(<<ChHash, 97>>), V_undefined, None),
     Command("setValue", Some(sel_i), V_string(s_hello), None),
     Command("setValue", Some(sel_i), V_undefined, None),
     Command("setValue", Some(sel_b), V_string(s_hello), None),
     Command("setValue", Some(<<ChHash, 117>>), V_string(s_hello), None),
     Command("submit", Some(<<ChHash, 102>>), V_undefined, None),
     Command("submit", Some(<<ChHash, 103>>), V_undefined, None),
     Command("submit", Some(sel_b), V_undefined, None),
     Command("select", Some(<<ChHash, 115>>), V_array(<<(<<97>>)>>), None),
     Command("select", Some(sel_i), V_string(<<98>>), None),
     Command("check", Some(<<ChHash, 99>>), V_undefined, None),
     Command("uncheck", Some(sel_b), V_undefined, None),
     Command("focus", Some(sel_i), V_undefined, None),
     Command("scroll", Some(sel_b), V_undefined, None),
     Command("hover", Some(sel_b), V_undefined, None),
     Command("drag", Some(sel_b), V_undefined, None),
     Command("click", Some(sel_b), V_undefined, Some("return")),
     Command("click", Some(sel_b), V_undefined, Some("throwError")),
     Command("click", Some(sel_b), V_undefined, Some("throwString")) >>

\* a waitForStateSettle promise: the animation-frame callback, the observer,
\* the 100 ms timer a mutation (re)starts, the 300 ms timer, the settled flag
NoWait ==
  [raf |-> FALSE, observing |-> FALSE, debounce |-> FALSE, ceiling |-> FALSE,
   settled |-> FALSE, resolved |-> 0, result |-> success("")]

\* if (!result.success) break
continueAlways(result) == FALSE

stopOnFailure(result) == ~result.success

\* the for loop awaits each execute before it takes the next command
mayStartAny(i) == TRUE

mayStart(i) == i = next /\ ~delayPending

\* results.push(result) and the test that follows it
pushResult(i, result, raised, effects) ==
  /\ results' = Append(results, [cmd |-> i, result |-> result, raised |-> raised])
  /\ log' = log \o effects \o <<[cmd |-> i, ev |-> "result"]>>
  /\ phase' = [phase EXCEPT ![i] = "returned"]
  /\ IF stopOnFailure(result)
       THEN batchDone' = TRUE /\ delayPending' = delayPending
       ELSE batchDone' = batchDone /\ delayPending' = TRUE

effectsOf(i, events) == [k \in 1..Len(events) |-> [cmd |-> i, ev |-> events[k]]]

\* the loop calls execute on command i, which runs until it returns, throws
\* or suspends in waitForStateSettle
StartCommand(i) ==
  /\ ~batchDone
  /\ phase[i] = "notStarted"
  /\ mayStart(i)
  /\ LET outcome == execute(commands[i], page) IN
     /\ page' = outcome.page
     /\ CASE outcome.kind = "return" ->
               /\ pushResult(i, outcome.result, outcome.raised, effectsOf(i, outcome.events))
               /\ UNCHANGED <<waits, escaped>>
          [] outcome.kind = "await" ->
               /\ log' = log \o effectsOf(i, outcome.events)
               /\ phase' = [phase EXCEPT ![i] = "settling"]
               /\ waits' = [waits EXCEPT ![i] = [NoWait EXCEPT !.raf = TRUE,
                                                                !.result = outcome.result]]
               /\ UNCHANGED <<results, delayPending, batchDone, escaped>>
          [] outcome.kind = "throw" ->
               /\ log' = log \o effectsOf(i, outcome.events)
               /\ phase' = [phase EXCEPT ![i] = "threw"]
               /\ escaped' = TRUE
               /\ batchDone' = TRUE
               /\ UNCHANGED <<results, waits, delayPending>>
  /\ UNCHANGED <<commands, next, pageMutations, scanVars, sanVars, trackVars, engVars, stateVars, restVars>>

\* the animation frame, then the microtask: the observer starts to observe and
\* the 300 ms timer is set
RafFire(i) ==
  /\ waits[i].raf
  /\ waits' = [waits EXCEPT ![i].raf = FALSE, ![i].observing = TRUE, ![i].ceiling = TRUE]
  /\ UNCHANGED <<commands, page, phase, results, log, next, delayPending, batchDone,
                 escaped, pageMutations, scanVars, sanVars, trackVars, engVars, stateVars, restVars>>

\* the page mutates the DOM while an observer is connected: every connected
\* observer restarts its 100 ms timer
DomMutation ==
  /\ pageMutations < MaxMutations
  /\ \E i \in DOMAIN waits : waits[i].observing
  /\ pageMutations' = pageMutations + 1
  /\ waits' = [i \in DOMAIN waits |->
                 IF waits[i].observing THEN [waits[i] EXCEPT !.debounce = TRUE]
                 ELSE waits[i]]
  /\ UNCHANGED <<commands, page, phase, results, log, next, delayPending, batchDone,
                 escaped, scanVars, sanVars, trackVars, engVars, stateVars, restVars>>

\* a timer callback of the settle wait: if (!settled) { settled = true;
\* observer.disconnect(); resolve(); }, after which execute returns its result
settleUnguarded(i, w) ==
  /\ waits' = [waits EXCEPT ![i] = [w EXCEPT !.settled = TRUE, !.observing = FALSE,
                                             !.resolved = @ + 1]]
  /\ pushResult(i, w.result, FALSE, <<>>)

settle(i, w) ==
  IF w.settled
    THEN /\ waits' = [waits EXCEPT ![i] = w]
         /\ UNCHANGED <<phase, results, log, delayPending, batchDone>>
    ELSE /\ waits' = [waits EXCEPT ![i] = [w EXCEPT !.settled = TRUE, !.observing = FALSE,
                                                    !.resolved = @ + 1]]
         /\ pushResult(i, w.result, FALSE, <<>>)

\* the 100 ms timer fires
DebounceFire(i) ==
  /\ waits[i].debounce
  /\ settle(i, [waits[i] EXCEPT !.debounce = FALSE])
  /\ UNCHANGED <<commands, page, next, escaped, pageMutations, scanVars, sanVars, trackVars, engVars, stateVars, restVars>>

\* the 300 ms timer fires
CeilingFire(i) ==
  /\ waits[i].ceiling
  /\ settle(i, [waits[i] EXCEPT !.ceiling = FALSE])
  /\ UNCHANGED <<commands, page, next, escaped, pageMutations, scanVars, sanVars, trackVars, engVars, stateVars, restVars>>

\* the 50 ms delay after a successful command ends: the loop takes the next
\* command, or returns the results
DelayFire ==
  /\ delayPending
  /\ ~batchDone
  /\ delayPending' = FALSE
  /\ IF next = Len(commands)
       THEN batchDone' = TRUE /\ next' = next
       ELSE batchDone' = FALSE /\ next' = next + 1
  /\ UNCHANGED <<commands, page, phase, waits, results, log, escaped, pageMutations,
                 scanVars, sanVars, trackVars, engVars, stateVars, restVars>>

Batches ==
  UNION {[1..k -> Range(CommandPool)] : k \in 1..MaxBatch}

\* executeBatch(commands) has been called on a fresh page
InitExec ==
  /\ commands \in Batches
  /\ page = InitialPage
  /\ phase = [i \in 1..Len(commands) |-> "notStarted"]
  /\ waits = [i \in 1..Len(commands) |-> NoWait]
  /\ results = <<>>
  /\ log = <<>>
  /\ next = 1
  /\ delayPending = FALSE
  /\ batchDone = FALSE
  /\ escaped = FALSE
  /\ pageMutations = 0
  /\ parent = [n \in Nodes |-> n - 1]
  /\ dom = [n \in Nodes |-> IF n = Body THEN BodyElement ELSE DivElement]
  /\ config = DefaultScannerConfig
  /\ cache = [n \in Nodes |-> NoEntry]
  /\ idCounter = 0
  /\ now = 1
  /\ lastScan = NoScan
  /\ prevScan = NoScan
  /\ currentContext = NoContext
  /\ mutations = 0
  /\ scanThrew = FALSE
  /\ SanIdle
  /\ TrackIdle
  /\ EngIdle
  /\ StateIdle
  /\ RestIdle

NextExec ==
  \/ DomMutation
  \/ DelayFire
  \/ \E i \in 1..Len(commands) : StartCommand(i)
  \/ \E i \in 1..Len(commands) : RafFire(i)
  \/ \E i \in 1..Len(commands) : DebounceFire(i)
  \/ \E i \in 1..Len(commands) : CeilingFire(i)

SpecExec == InitExec /\ [][NextExec]_vars

\* --------------------------------------------------------- single commands
\* execute(command) on a page in any state: the commands of the batches, and
\* further values and targets for click, setValue and select
sel_s == <<ChHash, 115>>
sel_t == <<ChHash, 116>>
sel_quoted_missing == <<ChQuote>> \o sel_missing \o <<ChQuote>>

ActionPool ==
  CommandPool \o
  << Command("click", Some(sel_t), V_undefined, None),
     Command("click", Some(sel_s), V_undefined, None),
     Command("click", Some(<<ChHash, 99>>), V_undefined, None),
     Command("setValue", Some(sel_i), V_null, None),
     Command("setValue", Some(sel_i), V_string(<<>>), None),
     Command("setValue", Some(sel_i), V_number(<<48>>), None),
     Command("setValue", Some(sel_i), V_number(<<55>>), None),
     Command("setValue", Some(sel_i), V_number(s_NaN), None),
     Command("setValue", Some(sel_i), V_boolean(FALSE), None),
     Command("setValue", Some(sel_i), V_boolean(TRUE), None),
     Command("setValue", Some(sel_t), V_string(s_hello), None),
     Command("setValue", Some(sel_dashes), V_string(s_hello), None),
     Command("setValue", Some(sel_missing), V_string(s_hello), None),
     Command("setValue", Some(sel_quoted_missing), V_string(s_hello), None),
     Command("select", Some(sel_s), V_array(<<>>), None),
     Command("select", Some(sel_s), V_array(<<(<<98>>), (<<97>>)>>), None),
     Command("select", Some(sel_s), V_array(<<(<<97>>), (<<97>>)>>), None),
     Command("select", Some(sel_s), V_array(<<(<<122>>)>>), None),
     Command("select", Some(sel_s), V_array(<<(<<97>>), (<<122>>)>>), None),
     Command("select", Some(sel_s), V_string(<<98>>), None),
     Command("select", Some(sel_dashes), V_array(<<(<<97>>)>>), None),
     Command("check", Some(sel_dashes), V_undefined, None),
     Command("check", Some(sel_missing), V_undefined, None),
     Command("submit", Some(<<ChHash, 104>>), V_undefined, None),
     Command("submit", Some(<<ChHash, 107>>), V_undefined, None),
     Command("custom", Some(sel_b), V_undefined, None),
     Command("custom", Some(sel_b), V_undefined, Some("")),
     Command("custom", Some(sel_b), V_undefined, Some("return")),
     Command("custom", Some(sel_b), V_undefined, Some("throwError")),
     Command("custom", Some(sel_missing), V_undefined, Some("return")),
     Command("click", Some(sel_b), V_undefined, Some("")),
     Command("setValue", Some(sel_i), V_string(s_hello), Some("return")),
     Command("setValue", Some(sel_i), V_string(s_hello), Some("throwString")),
     Command("setValue", Some(sel_b), V_string(s_hello), Some("return")),
     Command("submit", Some(<<ChHash, 102>>), V_undefined, Some("return")),
     Command("submit", Some(<<ChHash, 102>>), V_undefined, Some("throwError")),
     Command("select", Some(sel_s), V_array(<<(<<97>>)>>), Some("return")),
     Command("select", Some(sel_s), V_array(<<(<<97>>)>>), Some("throwError")),
     Command("check", Some(<<ChHash, 99>>), V_undefined, Some("return")),
     Command("check", Some(<<ChHash, 99>>), V_undefined, Some("throwError")),
     Command("uncheck", Some(<<ChHash, 99>>), V_undefined, Some("return")),
     Command("uncheck", Some(<<ChHash, 99>>), V_undefined, Some("throwString")),
     Command("focus", Some(sel_i), V_undefined, Some("return")),
     Command("focus", Some(sel_i), V_undefined, Some("throwError")),
     Command("scroll", Some(sel_b), V_undefined, Some("return")),
     Command("scroll", Some(sel_b), V_undefined, Some("throwError")),
     Command("hover", Some(sel_b), V_undefined, Some("return")),
     Command("hover", Some(sel_b), V_undefined, Some("throwError")) >>

\* the states the page can be in when the command arrives
InitialPages ==
  { [InitialPage EXCEPT !["i"].value = v, !["c"].checked = c, !["s"].selected = sel] :
      v \in {<<>>, s_hello}, c \in BOOLEAN, sel \in SUBSET {1, 2} }

\* execute(command) has been called
InitAction ==
  /\ commands \in [1..1 -> Range(ActionPool)]
  /\ page \in InitialPages
  /\ phase = [i \in 1..Len(commands) |-> "notStarted"]
  /\ waits = [i \in 1..Len(commands) |-> NoWait]
  /\ results = <<>>
  /\ log = <<>>
  /\ next = 1
  /\ delayPending = FALSE
  /\ batchDone = FALSE
  /\ escaped = FALSE
  /\ pageMutations = 0
  /\ ScanIdle
  /\ SanIdle
  /\ TrackIdle
  /\ EngIdle
  /\ StateIdle
  /\ RestIdle

SpecAction == InitAction /\ [][NextExec]_vars

\* the browser runs the callback of a timer that is set: the 300 ms timer of
\* every settle wait fires (nothing is assumed of the 100 ms timer, which
\* mutations may reset for ever, nor of the page)
CeilingFairness ==
  \A i \in 1..MaxBatch : WF_vars(i \in DOMAIN waits /\ CeilingFire(i))

SpecSettle == InitAction /\ [][NextExec]_vars /\ CeilingFairness

\* ------------------------------------------------------- executor properties
hasResult(c) == \E j \in 1..Len(results) : results[j].cmd = c
effectPositions(c) == {q \in 1..Len(log) : log[q].cmd = c /\ log[q].ev # "result"}
touched(c) == phase[c] # "notStarted" \/ \E q \in 1..Len(log) : log[q].cmd = c

\* C1: executeBatch stops at the first failing command. Every result before
\* the last is a success; once a result is a failure no later command is
\* started and none leaves an effect on the page; and the returned array ends
\* with the first failure (result k+1 is that of command k+1), or, if no
\* command failed, has one result per command.
C1_BatchStopsAtFirstFailure ==
  /\ \A j \in 1..Len(results) : j < Len(results) => results[j].result.success
  /\ \A j \in 1..Len(results) : ~results[j].result.success =>
       \A c \in 1..Len(commands) : c > results[j].cmd => ~touched(c)
  /\ batchDone /\ commands # <<>> =>
       /\ results # <<>>
       /\ results[Len(results)].cmd = Len(results)
       /\ results[Len(results)].result.success => Len(results) = Len(commands)

\* a batch has returned with a failure and a command after it was never run
C1_Witness ==
  /\ batchDone
  /\ results # <<>>
  /\ Len(results) < Len(commands)
  /\ ~results[Len(results)].result.success
  /\ phase[Len(commands)] = "notStarted"

\* C2: the commands of one executeBatch call run strictly in array order and
\* never overlap. A command has started only when every command before it has
\* returned its result with its settle wait over; the effects in the log are
\* in command order and each effect of command c comes after the result of
\* command c-1; and result j is the result of command j.
C2_SequentialNoOverlap ==
  /\ \A j \in 1..Len(results) : results[j].cmd = j
  /\ \A c \in 1..Len(commands) : touched(c) =>
       \A b \in 1..(c - 1) :
         /\ phase[b] = "returned"
         /\ hasResult(b)
         /\ ~waits[b].raf /\ ~waits[b].observing
  /\ \A p, q \in 1..Len(log) : p < q => log[p].cmd <= log[q].cmd
  /\ \A c \in 2..Len(commands) : \A q \in effectPositions(c) :
       \E p \in 1..(q - 1) : log[p] = [cmd |-> c - 1, ev |-> "result"]

\* both commands of a batch acted on the page and went through a settle wait
C2_Witness ==
  /\ batchDone
  /\ Len(results) = 2
  /\ waits[1].resolved = 1 /\ waits[2].resolved = 1
  /\ effectPositions(1) # {} /\ effectPositions(2) # {}

\* C3: every ActionResult that execute returns has an error exactly when it
\* is a failure: success = false implies error is set, success = true implies
\* error is absent.
C3_ResultHasErrorIffFailure ==
  \A j \in 1..Len(results) : results[j].result.success <=> ~results[j].result.error.def

\* a success was returned, and after it a failure of the resolution stage
C3_Witness ==
  /\ Len(results) = 2
  /\ results[1].result.success
  /\ results[2].result.message = "Target element not found"

\* C4: execute never throws or rejects. No exception leaves execute, and a
\* command during which an exception was raised (a malformed command, the
\* DOM, a custom script) gets a result with success = false.
C4_ExecuteNeverThrows ==
  /\ ~escaped
  /\ \A c \in 1..Len(commands) : phase[c] # "threw"
  /\ \A j \in 1..Len(results) : results[j].raised => ~results[j].result.success

\* an exception reached the catch block of execute and became a result
C4_Witness ==
  \E j \in 1..Len(results) :
    /\ results[j].raised
    /\ results[j].result.message = "Action execution failed"


\* ------------------------------------------------ single-command properties
\* the element a command's target resolves to, and commands that run the action
\* named by their action field
targetOf(command) ==
  IF command.isNull \/ ~command.target.def THEN NullTarget
  ELSE findElement(command.target.v).element
runs(command, action) ==
  /\ ~command.isNull
  /\ command.action = action
  /\ ~(command.script.def /\ command.script.v # "")
  /\ targetOf(command) # NullTarget
dispatched(c, ev) == \E q \in 1..Len(log) : log[q] = [cmd |-> c, ev |-> ev]

\* C14: a click on an element that has disabled set, or that carries
\* aria-disabled="true", is refused: its result has success = false, no click
\* event is dispatched on the element, and the call does not throw.
C14_DisabledClickRefused ==
  \A c \in 1..Len(commands) :
    /\ runs(commands[c], "click")
    /\ elementInfo(targetOf(commands[c])).disabled
         \/ elementInfo(targetOf(commands[c])).ariaDisabled
    => /\ ~escaped
       /\ ~dispatched(c, "click")
       /\ phase[c] # "settling"
       /\ \A j \in 1..Len(results) : results[j].cmd = c => ~results[j].result.success

\* C15: setValue on a text input or textarea rejects the command with 'Value is
\* required' if and only if parameters.value is undefined or null; every other
\* value (the empty string and 0 among them) is accepted, and the element's
\* value becomes its string form.
C15_SetValueRejectsOnlyMissing ==
  \A j \in 1..Len(results) :
    LET command == commands[results[j].cmd]
        e == targetOf(command)
    IN runs(command, "setValue")
       /\ elementInfo(e).tag \in {"input", "textarea"}
       /\ elementInfo(e).type # "file"
       => /\ results[j].result.message = "Value is required"
             <=> command.value.t \in {"undefined", "null"}
          /\ command.value.t \notin {"undefined", "null"}
             => /\ results[j].result.success
                /\ page[e].value = toString(command.value)

\* what the log holds for command c, in order
stepsOf(c) ==
  LET own == SelectSeq(log, LAMBDA entry : entry.cmd = c)
  IN [k \in 1..Len(own) |-> own[k].ev]
succeeded(c) ==
  \E j \in 1..Len(results) : results[j].cmd = c /\ results[j].result.success

\* C16: in every successful setValue on an input or textarea the steps occur in
\* this order: the native value setter is applied, an input event that bubbles
\* is dispatched, then a change event that bubbles, then the settle wait
\* completes, and only then is the success result returned. While the settle
\* wait is open the three steps have been taken in that order and there is no
\* result.
C16_SetValueOrder ==
  \A c \in 1..Len(commands) :
    runs(commands[c], "setValue") =>
      /\ phase[c] = "settling" =>
            /\ stepsOf(c) = <<"documentQuery", "nativeSet", "input", "change">>
            /\ ~waits[c].settled
            /\ ~hasResult(c)
      /\ succeeded(c) =>
            /\ stepsOf(c) = <<"documentQuery", "nativeSet", "input", "change", "result">>
            /\ bubbles("input") /\ bubbles("change")
            /\ waits[c].settled /\ waits[c].resolved = 1
            /\ page[targetOf(commands[c])].value = toString(commands[c].value)

\* a setValue of 'hello' on the text input has returned its success result
C16_Witness ==
  /\ runs(commands[1], "setValue")
  /\ succeeded(1)
  /\ commands[1].value = V_string(s_hello)
  /\ page["i"].value = s_hello

\* C17: select on a <select multiple> with an array of requested values: after
\* the action an option is selected if and only if its value equals, as a
\* string, some requested value, whatever was selected before; requested values
\* without a matching option are ignored and the action succeeds; and
\* data.values lists, in the order requested, exactly the requested values that
\* matched an option.
C17_MultiSelect ==
  \A j \in 1..Len(results) :
    LET command == commands[results[j].cmd]
        e == targetOf(command)
        options == elementInfo(e).options
        requested == command.value.a
    IN runs(command, "select")
       /\ elementInfo(e).tag = "select" /\ elementInfo(e).multiple
       /\ command.value.t = "array"
       => /\ results[j].result.success
          /\ \A i \in 1..Len(options) :
               i \in page[e].selected <=> \E k \in 1..Len(requested) : requested[k] = options[i]
          /\ results[j].result.data =
               SelectSeq(requested, LAMBDA val : \E i \in 1..Len(options) : options[i] = val)

\* select ['a', 'z'] on the multi-select has returned: a is selected, b is not,
\* and ['a'] is reported
C17_Witness ==
  /\ results # <<>>
  /\ runs(commands[1], "select")
  /\ commands[1].value = V_array(<<(<<97>>), (<<122>>)>>)
  /\ results[1].result.data = <<(<<97>>)>>
  /\ page["s"].selected = {1}

\* C18: the settle wait terminates and resolves exactly once. It never resolves
\* a second time; while it is unresolved after the animation frame its 300 ms
\* timer is pending, so it resolves no later than that timer fires; and once
\* the frame has fired it does resolve, whether mutations keep resetting the
\* 100 ms timer or none occurs at all.
C18_SettleTerminatesOnce ==
  /\ [](\A c \in DOMAIN waits :
          /\ waits[c].resolved <= 1
          /\ waits[c].settled <=> waits[c].resolved = 1
          /\ phase[c] = "settling" /\ ~waits[c].raf => waits[c].ceiling /\ ~waits[c].settled)
  /\ \A c \in 1..MaxBatch :
       (c \in DOMAIN waits /\ phase[c] = "settling" /\ ~waits[c].raf)
         ~> (c \in DOMAIN waits /\ waits[c].resolved = 1 /\ phase[c] = "returned")

\* mutations kept the 100 ms timer pending to the end, the 300 ms timer fired
\* and resolved the wait
C18_Witness ==
  /\ waits[1].resolved = 1
  /\ ~waits[1].ceiling
  /\ waits[1].debounce
  /\ pageMutations = MaxMutations

\* C19: when the settle wait resolves, by the 100 ms timer or by the 300 ms
\* timer, the losing path is torn down: from then on the MutationObserver is
\* disconnected and no timer the settle wait started is still pending.
C19_SettleTeardown ==
  \A c \in DOMAIN waits :
    waits[c].settled =>
      /\ ~waits[c].observing
      /\ ~waits[c].debounce
      /\ ~waits[c].ceiling

\* commands whose target reaches the sanitizer
hasTarget(command) ==
  /\ ~command.isNull
  /\ validateCommand(command).valid
  /\ command.target.def

\* C20: when a command's target fails sanitization or validation, execute
\* returns the failure 'Invalid selector' without querying the live document,
\* without dispatching an event and without changing an element's state; when
\* the sanitized selector is valid but matches no element, execute returns the
\* failure 'Target element not found', whose error holds the sanitized and the
\* original selector, and the action is not performed.
C20_UnresolvedTargetFails ==
  \A c \in 1..Len(commands) :
    LET command == commands[c]
        cleaned == cleanAndValidateSelector(command.target.v)
    IN hasTarget(command) /\ phase[c] # "notStarted" =>
         /\ ~cleaned.success =>
               /\ phase[c] = "returned"
               /\ stepsOf(c) = <<"result">>
               /\ execute(command, page).page = page
               /\ \A j \in 1..Len(results) : results[j].cmd = c =>
                    /\ ~results[j].result.success
                    /\ results[j].result.message = "Invalid selector"
                    /\ ~results[j].raised
         /\ cleaned.success /\ querySelector(cleaned.selector) = NullTarget =>
               /\ phase[c] = "returned"
               /\ stepsOf(c) = <<"documentQuery", "result">>
               /\ execute(command, page).page = page
               /\ \A j \in 1..Len(results) : results[j].cmd = c =>
                    /\ ~results[j].result.success
                    /\ results[j].result.message = "Target element not found"
                    /\ results[j].result.error.def
                    /\ results[j].result.error.selector = cleaned.selector
                    /\ results[j].result.error.original = command.target.v
                    /\ ~results[j].raised

\* a setValue whose quoted target is sanitized to a valid selector that
\* matches nothing has returned 'not found' with both selectors
C20_Witness ==
  /\ results # <<>>
  /\ commands[1].target = Some(sel_quoted_missing)
  /\ results[1].result.message = "Target element not found"
  /\ results[1].result.error.selector = sel_missing
  /\ results[1].result.error.original = sel_quoted_missing
  /\ stepsOf(1) = <<"documentQuery", "result">>

\* a check whose target fails sanitization has returned 'Invalid selector'
\* and nothing else happened
C20_WitnessInvalid ==
  /\ results # <<>>
  /\ commands[1].action = "check"
  /\ commands[1].target = Some(sel_dashes)
  /\ results[1].result.message = "Invalid selector"
  /\ stepsOf(1) = <<"result">>

\* C21: a command that has an action and a script but no target passes
\* validation, and execute does not return a failure on account of the missing
\* target: a script that returns normally gives a success result.
C21_ScriptWithoutTargetRuns ==
  \A c \in 1..Len(commands) :
    LET command == commands[c]
    IN ~command.isNull /\ command.action # "" /\ ~command.target.def
       /\ command.script = Some("return")
       => /\ validateCommand(command).valid
          /\ \A j \in 1..Len(results) : results[j].cmd = c =>
               /\ results[j].result.success
               /\ ~results[j].raised

\* how often ev is among the steps of command c
timesOf(c, ev) == Cardinality({q \in 1..Len(log) : log[q] = [cmd |-> c, ev |-> ev]})

\* C25: submit semantics. On a form with no button[type="submit"] descendant
\* the executor dispatches exactly one cancelable submit event and calls the
\* form's native submit() if and only if no handler prevented that event; on a
\* form that has such a button it clicks the button, dispatches no submit event
\* of its own and does not call submit(); in both branches the result is
\* returned only after the settle wait.
C25_SubmitSemantics ==
  \A c \in 1..Len(commands) :
    LET info == elementInfo(targetOf(commands[c])) IN
    /\ runs(commands[c], "submit")
    /\ info.tag = "form"
    /\ phase[c] # "notStarted"
    => /\ ~info.hasSubmitButton =>
            /\ timesOf(c, "submit") = 1 /\ cancelable("submit")
            /\ dispatched(c, "nativeSubmit") <=> ~info.preventsSubmit
       /\ info.hasSubmitButton =>
            /\ timesOf(c, "buttonClick") = 1
            /\ ~dispatched(c, "submit")
            /\ ~dispatched(c, "nativeSubmit")
       /\ hasResult(c) => waits[c].settled

\* the command carries a non-empty script and its target resolves to an element
scripted(command) ==
  /\ ~command.isNull
  /\ command.action # ""
  /\ command.script.def /\ command.script.v # ""
  /\ targetOf(command) # NullTarget

\* C39: script dispatch rule. When a command carries a non-empty script,
\* execute runs the script with the resolved element and does not perform the
\* command's named action, for every action type, and the result is a success
\* exactly when the script does not throw; when the action is 'custom' and no
\* script is given, execute returns success=false, 'Unknown action type'.
C39_ScriptDispatch ==
  \A j \in 1..Len(results) :
    LET c == results[j].cmd
        command == commands[c]
    IN /\ scripted(command) =>
            /\ stepsOf(c) = <<"documentQuery", "script", "result">>
            /\ results[j].result.success <=> command.script.v = "return"
       /\ runs(command, "custom") =>
            /\ stepsOf(c) = <<"documentQuery", "result">>
            /\ ~results[j].result.success
            /\ results[j].result.message = "Unknown action type"

\* a setValue command for a text input that carries a script has returned a
\* success, and the input does not hold the command's value
C39_Witness ==
  /\ Len(results) = 1
  /\ scripted(commands[1])
  /\ commands[1].action = "setValue"
  /\ elementInfo(targetOf(commands[1])).tag = "input"
  /\ results[1].result.success
  /\ page["i"].value # s_hello

\* ------------------------------------------------------------ MutationTracker
\* the elements events and mutations are reported on: a text input, a form,
\* a div, and a div whose id starts with uuics-
TrackTargets == {"input", "form", "div", "own"}
tagOf(target) == IF target = "own" THEN "div" ELSE target

\* MutationTracker.isInteractiveElement (no onclick, ng-click or role attribute)
isInteractiveElement(target) == tagOf(target) \in {"button", "a", "input", "select", "textarea"}

\* MutationTracker.isFormControl
isFormControl(target) == tagOf(target) \in {"input", "textarea", "select"}

\* what the page reports: mutation records of one type, and the events the
\* tracker listens for
PageEvents == {"childList", "attributes", "click", "input", "change", "submit"}

\* the trigger a listener passes to debouncedOnChange
triggerOf(kind) ==
  CASE kind \in {"childList", "attributes"} -> "mutation"
    [] kind \in {"input", "change"} -> "change"
    [] OTHER -> kind

\* the tests the observer callback and the three listeners make before they
\* call debouncedOnChange
notifies(kind, target) ==
  CASE kind = "childList" -> target # "own"
    [] kind = "attributes" -> target # "own" /\ isInteractiveElement(target)
    [] kind = "click" -> isInteractiveElement(target)
    [] kind \in {"input", "change"} -> isFormControl(target)
    [] kind = "submit" -> tagOf(target) = "form"

\* utils.debounce, the debounced function: the pending timeout is cleared and
\* a new one is set wait ms from now, for the arguments of this call
debouncedKeepFirst(timer, trigger, target) ==
  IF timer.def THEN timer
  ELSE [def |-> TRUE, due |-> tclock + DebounceTicks, trigger |-> trigger, target |-> target]

debounced(timer, trigger, target) ==
  [def |-> TRUE, due |-> tclock + DebounceTicks, trigger |-> trigger, target |-> target]

\* document.body.addEventListener(type, listener, true) for each of the types,
\* with a new listener function
addListener(w, types) ==
  [w EXCEPT !.ids = @ + 1,
            !.body = @ \cup {[type |-> t, listener |-> w.ids + 1] : t \in types}]

\* this.listeners.set(type, listener) for the listener function created last
setListener(w, type) ==
  [w EXCEPT !.listeners = {l \in @ : l.type # type} \cup {[type |-> type, listener |-> w.ids]}]

\* MutationTracker.setupMutationObserver
setupMutationObserver(w) == [w EXCEPT !.observer = TRUE, !.observing = @ + 1]

\* MutationTracker.setupClickListener
setupClickListener(w) == setListener(addListener(w, {"click"}), "click")

\* MutationTracker.setupChangeListener: the listener is added for input and for
\* change, and kept in the map under input
setupChangeListener(w) == setListener(addListener(w, {"input", "change"}), "input")

\* MutationTracker.setupSubmitListener
setupSubmitListener(w) == setListener(addListener(w, {"submit"}), "submit")

\* MutationTracker.start, the set-up of the observer and the listeners
startWiring(w, cfg) ==
  LET w1 == IF cfg.mutations THEN setupMutationObserver(w) ELSE w
      w2 == IF cfg.clicks THEN setupClickListener(w1) ELSE w1
      w3 == IF cfg.changes THEN setupChangeListener(w2) ELSE w2
  IN IF cfg.submits THEN setupSubmitListener(w3) ELSE w3

\* MutationTracker.stop, the observer and the listeners: observer.disconnect(),
\* removeEventListener(eventType, listener, true) for each entry of the map,
\* listeners.clear()
stopWiring(w) ==
  [w EXCEPT !.observer = FALSE,
            !.observing = IF w.observer THEN @ - 1 ELSE @,
            !.body = @ \ w.listeners,
            !.listeners = {}]

\* MutationTracker.start
TrackerStart ==
  /\ ~trackerActive
  /\ startsLeft > 0
  /\ startsLeft' = startsLeft - 1
  /\ wiring' = startWiring(wiring, trackConfig)
  /\ trackerActive' = TRUE
  /\ trackerStarted' = TRUE
  /\ debounceTimer' = NoTimer
  /\ UNCHANGED <<tclock, notes, calls, trackConfig, scanVars, execVars, sanVars, engVars,
                 stateVars, restVars>>

\* MutationTracker.stop: the listeners are removed and the pending call is cancelled
TrackerStop ==
  /\ trackerActive
  /\ wiring' = stopWiring(wiring)
  /\ trackerActive' = FALSE
  /\ debounceTimer' = NoTimer
  /\ UNCHANGED <<tclock, trackerStarted, notes, calls, trackConfig, startsLeft, scanVars,
                 execVars, sanVars, engVars, stateVars, restVars>>

\* MutationTracker.updateConfig: an active tracker is stopped, the
\* configuration is merged, and the tracker is started again with its callback
TrackerUpdateConfig(cfg) ==
  /\ cfg # trackConfig
  /\ trackConfig' = cfg
  /\ IF trackerActive
       THEN /\ startsLeft > 0
            /\ startsLeft' = startsLeft - 1
            /\ wiring' = startWiring(stopWiring(wiring), cfg)
            /\ debounceTimer' = NoTimer
       ELSE UNCHANGED <<startsLeft, wiring, debounceTimer>>
  /\ UNCHANGED <<tclock, trackerActive, trackerStarted, notes, calls, scanVars,
                 execVars, sanVars, engVars, stateVars, restVars>>

\* the mutation or event reaches the tracker: an observer of the tracker
\* observes document.body, or a listener for the event is registered on it
listensFor(kind) ==
  IF kind \in {"childList", "attributes"} THEN wiring.observing > 0
  ELSE \E l \in wiring.body : l.type = kind

\* the observer callback or a listener of the active tracker runs for a
\* mutation or an event that passes its test
PageEvent(kind, target) ==
  /\ trackerActive
  /\ listensFor(kind)
  /\ notifies(kind, target)
  /\ Len(notes) < MaxNotes
  /\ notes' = Append(notes, [trigger |-> triggerOf(kind), target |-> target, at |-> tclock])
  /\ debounceTimer' = debounced(debounceTimer, triggerOf(kind), target)
  /\ UNCHANGED <<tclock, trackerActive, trackerStarted, calls, trackConfig, startsLeft, wiring,
                 scanVars, execVars, sanVars, engVars, stateVars, restVars>>

\* the timeout of the debounced function fires: func(...args), timeout = null
DebouncedFire ==
  /\ debounceTimer.def
  /\ tclock >= debounceTimer.due
  /\ calls' = Append(calls, [trigger |-> debounceTimer.trigger, target |-> debounceTimer.target,
                             at |-> tclock, after |-> Len(notes)])
  /\ debounceTimer' = NoTimer
  /\ UNCHANGED <<tclock, trackerActive, trackerStarted, notes, trackConfig, startsLeft, wiring,
                 scanVars, execVars, sanVars, engVars, stateVars, restVars>>

\* a tick of the clock; a timeout that is due fires before the next tick
TrackerTick ==
  /\ tclock < MaxTicks
  /\ debounceTimer.def => tclock < debounceTimer.due
  /\ tclock' = tclock + 1
  /\ UNCHANGED <<trackerActive, trackerStarted, debounceTimer, notes, calls, trackConfig,
                 startsLeft, wiring, scanVars, execVars, sanVars, engVars, stateVars, restVars>>

InitTracker ==
  /\ TrackIdle
  /\ ScanIdle
  /\ ExecIdle
  /\ SanIdle
  /\ EngIdle
  /\ StateIdle
  /\ RestIdle

NextTracker ==
  \/ TrackerStart
  \/ TrackerStop
  \/ \E kind \in PageEvents, target \in TrackTargets : PageEvent(kind, target)
  \/ DebouncedFire
  \/ TrackerTick

SpecTracker == InitTracker /\ [][NextTracker]_vars

\* the configurations of the tracker
TrackConfigs ==
  [mutations : BOOLEAN, clicks : BOOLEAN, changes : BOOLEAN, submits : BOOLEAN]

\* new MutationTracker(config), to be started and stopped several times
InitListeners ==
  /\ tclock = 0
  /\ trackerActive = FALSE
  /\ trackerStarted = FALSE
  /\ debounceTimer = NoTimer
  /\ notes = <<>>
  /\ calls = <<>>
  /\ trackConfig \in TrackConfigs
  /\ startsLeft = MaxStarts
  /\ wiring = NoWiring
  /\ ScanIdle
  /\ ExecIdle
  /\ SanIdle
  /\ EngIdle
  /\ StateIdle
  /\ RestIdle

NextListeners ==
  \/ TrackerStart
  \/ TrackerStop
  \/ \E cfg \in TrackConfigs : TrackerUpdateConfig(cfg)

SpecListeners == InitListeners /\ [][NextListeners]_vars

\* C37: after MutationTracker.stop() the observer is disconnected and none of
\* the listeners the tracker added to document.body (click, input, change,
\* submit) is registered; after any number of start/stop cycles the number of
\* registered tracker listeners is that after a single start.
C37_StopRemovesListeners ==
  /\ (trackerStarted /\ ~trackerActive) => wiring.observing = 0 /\ wiring.body = {}
  /\ trackerActive =>
       Cardinality(wiring.body) = Cardinality(startWiring(NoWiring, trackConfig).body)

\* notification j is followed by another one less than debounceDelay later
inBurst(j) == j < Len(notes) /\ notes[j + 1].at - notes[j].at < DebounceTicks
callsAfter(j) == {k \in 1..Len(calls) : calls[k].after = j}

\* C23: tracker debounce coalescing. While the tracker is active, a burst of
\* change notifications in which each arrives less than debounceDelay after
\* the one before it invokes the change callback exactly once: no call is made
\* for a notification that is followed within the burst, the call for the last
\* notification of the burst is made once, not before debounceDelay has elapsed
\* since that notification, and with its trigger and target.
C23_DebounceCoalesces ==
  /\ \A k \in 1..Len(calls) :
       LET j == calls[k].after
       IN /\ j \in 1..Len(notes)
          /\ calls[k].trigger = notes[j].trigger
          /\ calls[k].target = notes[j].target
          /\ calls[k].at >= notes[j].at + DebounceTicks
  /\ \A j \in 1..Len(notes) :
       /\ Cardinality(callsAfter(j)) <= 1
       /\ inBurst(j) => callsAfter(j) = {}
       /\ j < Len(notes) /\ notes[j + 1].at - notes[j].at > DebounceTicks
            => Cardinality(callsAfter(j)) = 1
       /\ j = Len(notes) /\ trackerActive /\ ~debounceTimer.def
            => Cardinality(callsAfter(j)) = 1
       /\ j = Len(notes) /\ trackerActive /\ debounceTimer.def
            => /\ debounceTimer.due = notes[j].at + DebounceTicks
               /\ tclock <= debounceTimer.due

\* a burst of three notifications, each one tick after the one before, has
\* been answered by one call, for the last of them
C23_Witness ==
  /\ Len(notes) = 3
  /\ notes[2].at = notes[1].at + 1 /\ notes[3].at = notes[2].at + 1
  /\ notes[1].trigger = "mutation" /\ notes[3].trigger = "click"
  /\ Len(calls) = 1
  /\ calls[1].trigger = "click" /\ calls[1].after = 3

\* ---------------------------------------------------------------- UUICSEngine
\* the commands engine.execute is called with: a click that succeeds, a click
\* on a disabled button, a target that matches nothing
EngineCommands ==
  << Command("click", Some(sel_b), V_undefined, None),
     Command("click", Some(<<ChHash, 100>>), V_undefined, None),
     Command("click", Some(sel_missing), V_undefined, None) >>

Subscribers == {1}

\* the scanner configurations of the engine: the default, and one whose root
\* selector does not parse
EngineConfigs ==
  {DefaultScannerConfig, With(DefaultScannerConfig, [rootSelectors |-> Some(<<s_bad>>)])}

askedFor == Len(pendingScans) + Len(scanLog)

\* the scanFunction of UUICSEngine.scan runs for a request: the scan, the new
\* current context, notifySubscribers
runScan(origin) ==
  /\ scanFunction
  /\ UNCHANGED <<parent, dom, now, prevScan, mutations>>
  /\ scanLog' = Append(scanLog, [origin |-> origin, replaced |-> ~scanThrew',
                                 notified |-> IF scanThrew' THEN {} ELSE subscribers])

\* UUICSEngine.scan(): with useIdleCallback the scanFunction is handed to
\* runInIdle, otherwise it runs at once
requestScan(origin, pending) ==
  IF useIdleCallback
    THEN /\ pendingScans' = Append(pending, [origin |-> origin, stage |-> "idle"])
         /\ UNCHANGED <<scanVars, scanLog>>
    ELSE /\ pendingScans' = pending
         /\ runScan(origin)

\* removal of entry i of a sequence
without(seq, i) == SubSeq(seq, 1, i - 1) \o SubSeq(seq, i + 1, Len(seq))

\* UUICSEngine.execute, from the call to the returned result: the executor
\* runs the command, and a success sets the 100 ms timer of the re-scan
EngineExecute(command) ==
  /\ Len(elog) < MaxExecutes
  /\ askedFor < MaxScans
  /\ LET outcome == execute(command, page)
     IN /\ page' = outcome.page
        /\ elog' = Append(elog, [success |-> outcome.result.success, scans |-> Len(scanLog)])
        /\ pendingScans' =
             IF outcome.result.success
             THEN Append(pendingScans, [origin |-> "action", stage |-> "timer"])
             ELSE pendingScans
  /\ UNCHANGED <<commands, phase, waits, results, log, next, delayPending, batchDone,
                 escaped, pageMutations, scanVars, sanVars, trackVars, useIdleCallback,
                 scanLog, subscribers, stateVars, restVars>>

\* the callback given to tracker.start, and the callback of the auto-scan
\* interval: this.scan()
ScanRequest(origin) ==
  /\ askedFor < MaxScans
  /\ requestScan(origin, pendingScans)
  /\ UNCHANGED <<execVars, sanVars, trackVars, useIdleCallback, elog, subscribers, stateVars, restVars>>

\* the 100 ms timer set by execute fires: this.scan()
RescanTimerFire(i) ==
  /\ pendingScans[i].stage = "timer"
  /\ requestScan(pendingScans[i].origin, without(pendingScans, i))
  /\ UNCHANGED <<execVars, sanVars, trackVars, useIdleCallback, elog, subscribers, stateVars, restVars>>

\* the idle callback of a requested scan runs
IdleFire(i) ==
  /\ pendingScans[i].stage = "idle"
  /\ pendingScans' = without(pendingScans, i)
  /\ runScan(pendingScans[i].origin)
  /\ UNCHANGED <<execVars, sanVars, trackVars, useIdleCallback, elog, subscribers, stateVars, restVars>>

\* UUICSEngine.subscribe, and the unsubscribe function it returns
Subscribe(sub) ==
  /\ sub \notin subscribers
  /\ subscribers' = subscribers \cup {sub}
  /\ UNCHANGED <<scanVars, execVars, sanVars, trackVars, useIdleCallback, pendingScans,
                 scanLog, elog, stateVars, restVars>>

Unsubscribe(sub) ==
  /\ sub \in subscribers
  /\ subscribers' = subscribers \ {sub}
  /\ UNCHANGED <<scanVars, execVars, sanVars, trackVars, useIdleCallback, pendingScans,
                 scanLog, elog, stateVars, restVars>>

\* new UUICSEngine(config)
InitEngine ==
  /\ useIdleCallback \in BOOLEAN
  /\ pendingScans = <<>>
  /\ scanLog = <<>>
  /\ elog = <<>>
  /\ subscribers = {}
  /\ parent = [n \in Nodes |-> n - 1]
  /\ dom = [n \in Nodes |-> IF n = Body THEN BodyElement ELSE DivElement]
  /\ config \in EngineConfigs
  /\ cache = [n \in Nodes |-> NoEntry]
  /\ idCounter = 0
  /\ now = 1
  /\ lastScan = NoScan
  /\ prevScan = NoScan
  /\ currentContext = NoContext
  /\ mutations = 0
  /\ scanThrew = FALSE
  /\ commands = <<>>
  /\ page = InitialPage
  /\ phase = <<>>
  /\ waits = <<>>
  /\ results = <<>>
  /\ log = <<>>
  /\ next = 1
  /\ delayPending = FALSE
  /\ batchDone = TRUE
  /\ escaped = FALSE
  /\ pageMutations = 0
  /\ SanIdle
  /\ TrackIdle
  /\ StateIdle
  /\ RestIdle

NextEngine ==
  \/ \E k \in 1..Len(EngineCommands) : EngineExecute(EngineCommands[k])
  \/ \E origin \in {"tracker", "interval"} : ScanRequest(origin)
  \/ \E i \in 1..Len(pendingScans) : RescanTimerFire(i)
  \/ \E i \in 1..Len(pendingScans) : IdleFire(i)
  \/ \E sub \in Subscribers : Subscribe(sub)
  \/ \E sub \in Subscribers : Unsubscribe(sub)

\* a callback is taken off the queue of timers and idle callbacks: the steps
\* of RescanTimerFire and IdleFire, and no other step of the engine
dequeues ==
  \E i \in DOMAIN pendingScans :
    pendingScans' \in {without(pendingScans, i),
                       Append(without(pendingScans, i),
                              [origin |-> pendingScans[i].origin, stage |-> "idle"])}

\* the browser runs the callback of a timer that is set and an idle callback
\* that is queued
EngineFairness == WF_pendingScans(dequeues)

SpecEngine == InitEngine /\ [][NextEngine]_vars /\ EngineFairness

\* C24: in the engine at most one scan is scheduled or running at any time: a
\* request that arrives while a scan is scheduled collapses into that run and
\* adds no scan.
C24_OneScanScheduled == Len(pendingScans) <= 1

\* C27: every engine.execute call that returns success is eventually followed
\* by a fresh scan that replaces the current context and notifies the
\* subscribers of that time; an execute that returns failure schedules no
\* re-scan.
C27_SuccessIsRescanned ==
  /\ \A j \in 1..MaxExecutes :
       (j \in DOMAIN elog /\ elog[j].success)
         ~> (\E k \in DOMAIN scanLog :
               /\ j \in DOMAIN elog /\ k > elog[j].scans
               /\ scanLog[k].replaced)
  /\ [][\A k \in 1..Len(EngineCommands) :
          EngineExecute(EngineCommands[k]) /\ ~elog'[Len(elog')].success
            => pendingScans' = pendingScans]_vars

\* ---------------------------------------------------------------- StateTracker
\* JavaScript values of the application state: strings, functions, and objects
\* and arrays as their own enumerable properties in order
Str(v) == [t |-> "string", s |-> v, kids |-> <<>>]
Fn == [t |-> "function", s |-> "", kids |-> <<>>]
Obj(kids) == [t |-> "object", s |-> "", kids |-> kids]
Arr(kids) == [t |-> "array", s |-> "", kids |-> kids]
Prop(k, v) == [k |-> k, v |-> v]

k_auth == <<97, 117, 116, 104>>  \* "auth"
k_username == <<117, 115, 101, 114, 110, 97, 109, 101>>  \* "username"
k_password == <<112, 97, 115, 115, 119, 111, 114, 100>>  \* "password"
k_apiKey == <<97, 112, 105, 75, 101, 121>>  \* "apiKey"
k_publicData == <<112, 117, 98, 108, 105, 99, 68, 97, 116, 97>>  \* "publicData"
k_app == <<97, 112, 112>>  \* "app"
k_user == <<117, 115, 101, 114>>  \* "user"
k_profile == <<112, 114, 111, 102, 105, 108, 101>>  \* "profile"
k_userPassword == <<117, 115, 101, 114, 80, 97, 115, 115, 119, 111, 114, 100>>  \* "userPassword"
k_session == <<115, 101, 115, 115, 105, 111, 110>>  \* "session"
k_token == <<116, 111, 107, 101, 110>>  \* "token"
k_onLogin == <<111, 110, 76, 111, 103, 105, 110>>  \* "onLogin"
k_list == <<108, 105, 115, 116>>  \* "list"
k_0 == <<48>>  \* "0"
k_error == <<101, 114, 114, 111, 114>>  \* "error"
p_password == <<42, 112, 97, 115, 115, 119, 111, 114, 100, 42>>  \* "*password*"
p_token == <<42, 116, 111, 107, 101, 110, 42>>  \* "*token*"
p_key == <<42, 107, 101, 121, 42>>  \* "*key*"
p_authToken == <<97, 117, 116, 104, 46, 116, 111, 107, 101, 110>>  \* "auth.token"
p_KEY == <<42, 75, 69, 89, 42>>  \* "*KEY*"
p_oken == <<63, 111, 107, 101, 110>>  \* "?oken"

Excluded == Str("[EXCLUDED]")

\* obj[k] = v on the properties of an object
setKey(kids, k, v) ==
  IF \E i \in 1..Len(kids) : kids[i].k = k
  THEN [i \in 1..Len(kids) |-> IF kids[i].k = k THEN Prop(k, v) ELSE kids[i]]
  ELSE Append(kids, Prop(k, v))

\* StateTracker.deepClone (the modelled values hold no cycles, dates or regular
\* expressions)
RECURSIVE deepClone(_)
deepClone(obj) ==
  CASE obj.t = "string" -> obj
    [] obj.t = "function" -> Str("[Function]")
    [] OTHER -> [obj EXCEPT !.kids = [i \in 1..Len(obj.kids) |->
                                        Prop(obj.kids[i].k, deepClone(obj.kids[i].v))]]

\* the regular expression matchesPattern builds, anchored at both ends, tested
\* from position i of str and j of pattern: * is .*, ? is ., every other
\* character stands for itself, letters in either case
RECURSIVE globTest(_, _, _, _)
globTest(str, pattern, i, j) ==
  IF j > Len(pattern) THEN i > Len(str)
  ELSE IF pattern[j] = 42
    THEN globTest(str, pattern, i, j + 1)
         \/ (i <= Len(str) /\ globTest(str, pattern, i + 1, j))
  ELSE /\ i <= Len(str)
       /\ pattern[j] = 63 \/ toLowerCase(<<pattern[j]>>) = toLowerCase(<<str[i]>>)
       /\ globTest(str, pattern, i + 1, j + 1)

\* StateTracker.matchesPattern
matchesPattern(str, pattern) == globTest(toLowerCase(str), pattern, 1, 1)

\* StateTracker.filterByPattern on the properties of an object or array
RECURSIVE filterByPattern(_, _, _)
filterByPattern(kids, pattern, path) ==
  [i \in 1..Len(kids) |->
     LET key == kids[i].k
         currentPath == IF path # <<>> THEN path \o <<ChDot>> \o key ELSE key
     IN IF matchesPattern(currentPath, pattern) \/ matchesPattern(key, pattern)
          THEN [kids[i] EXCEPT !.v = Excluded]
        ELSE IF kids[i].v.t \in {"object", "array"}
          THEN [kids[i] EXCEPT !.v.kids = filterByPattern(@, pattern, currentPath)]
        ELSE kids[i]]

\* StateTracker.applyExclusions
RECURSIVE applyPatterns(_, _, _)
applyPatterns(filtered, patterns, k) ==
  IF k > Len(patterns) THEN filtered
  ELSE applyPatterns(filterByPattern(filtered, patterns[k], <<>>), patterns, k + 1)

\* only the first pattern of the list is applied
applyFirstPattern(snap, patterns) ==
  IF Len(patterns) = 0 THEN snap ELSE filterByPattern(snap, patterns[1], <<>>)

applyExclusions(snap, patterns) ==
  IF Len(patterns) = 0 THEN snap ELSE applyPatterns(snap, patterns, 1)

\* StateTracker.captureSnapshot: tracked objects, getters (a getter that throws
\* leaves {error: message}), the custom capture function (skipped when it
\* throws), then the exclusions
RECURSIVE assignAll(_, _, _)
assignAll(snap, kids, i) ==
  IF i > Len(kids) THEN snap
  ELSE assignAll(setKey(snap, kids[i].k, kids[i].v), kids, i + 1)

clonedTracked(app) ==
  [i \in 1..Len(app.tracked) |-> Prop(app.tracked[i].k, deepClone(app.tracked[i].v))]

clonedGetters(app) ==
  [i \in 1..Len(app.getters) |->
     Prop(app.getters[i].k,
          IF app.getters[i].throws THEN Obj(<<Prop(k_error, Str("getter failed"))>>)
          ELSE deepClone(app.getters[i].v))]

captureSnapshot(app, patterns) ==
  LET tracked == assignAll(<<>>, clonedTracked(app), 1)
      getters == assignAll(tracked, clonedGetters(app), 1)
      custom == IF app.capture.def /\ ~app.capture.throws
                THEN assignAll(getters, app.capture.v.kids, 1)
                ELSE getters
  IN applyExclusions(custom, patterns)

\* what captureSnapshot leaves in a value the capture function returned under
\* key prop.k: Object.assign put the value itself, not a clone, into the
\* snapshot, and applyExclusions copies the snapshot one level deep, so each
\* pattern from the k-th on is applied to the properties of the value itself
\* until a pattern replaces the entry of the copy
RECURSIVE filteredInPlace(_, _, _)
filteredInPlace(prop, patterns, k) ==
  IF k > Len(patterns) \/ prop.v.t \notin {"object", "array"} THEN prop
  ELSE IF matchesPattern(prop.k, patterns[k]) THEN prop
  ELSE filteredInPlace(filterByPattern(<<prop>>, patterns[k], <<>>)[1], patterns, k + 1)

\* the application state after StateTracker.captureSnapshot: tracked objects
\* and getter results were cloned, the values of the capture function were not
afterCapture(app, patterns) ==
  IF app.capture.def /\ ~app.capture.throws
  THEN [app EXCEPT !.capture.v.kids =
          [i \in 1..Len(@) |-> filteredInPlace(@[i], patterns, 1)]]
  ELSE app

\* the application states and the exclude lists the tracker is tried on
NoCapture == [def |-> FALSE, throws |-> FALSE, v |-> Obj(<<>>)]
Getter(k, v, fails) == [k |-> k, v |-> v, throws |-> fails]

AppStates ==
  { [tracked |-> <<Prop(k_auth, Obj(<<Prop(k_username, Str("john")),
                                      Prop(k_password, Str("secret123")),
                                      Prop(k_apiKey, Str("sk-abc123")),
                                      Prop(k_publicData, Str("safe info"))>>))>>,
     getters |-> <<>>, capture |-> NoCapture],
    [tracked |-> <<Prop(k_app, Obj(<<Prop(k_user,
                                           Obj(<<Prop(k_profile,
                                                      Obj(<<Prop(k_userPassword, Str("pw"))>>)),
                                                 Prop(k_username, Str("ann"))>>))>>))>>,
     getters |-> <<Getter(k_session, Obj(<<Prop(k_token, Str("t0")), Prop(k_onLogin, Fn)>>),
                          FALSE)>>,
     capture |-> NoCapture],
    [tracked |-> <<>>,
     getters |-> <<Getter(k_session, Obj(<<>>), TRUE)>>,
     capture |-> [def |-> TRUE, throws |-> FALSE,
                  v |-> Obj(<<Prop(k_auth, Obj(<<Prop(k_token, Str("t1"))>>)),
                              Prop(k_list, Arr(<<Prop(k_0, Obj(<<Prop(k_password,
                                                                      Str("p0"))>>))>>))>>)]],
    [tracked |-> <<Prop(k_apiKey, Obj(<<Prop(k_0, Str("k0"))>>)),
                   Prop(k_user, Obj(<<Prop(k_token, Str("t2"))>>))>>,
     getters |-> <<>>,
     capture |-> [def |-> TRUE, throws |-> TRUE, v |-> Obj(<<>>)]] }

ExcludeLists ==
  { <<>>, <<p_password, p_token, p_key>>, <<p_authToken>>, <<p_KEY, p_oken>> }

SecretValues == {Str("x"), Str("y"), Obj(<<Prop(k_username, Str("z"))>>)}

\* the properties of a value, each as the sequence of positions that leads to it
RECURSIVE pathsOf(_)
pathsOf(obj) ==
  {<<>>} \cup UNION { {<<i>> \o rest : rest \in pathsOf(obj.kids[i].v)} : i \in 1..Len(obj.kids) }

RECURSIVE valueAt(_, _)
valueAt(obj, path) ==
  IF path = <<>> THEN obj ELSE valueAt(obj.kids[Head(path)].v, Tail(path))

RECURSIVE dottedPath(_, _)
dottedPath(obj, path) ==
  IF Len(path) = 1 THEN obj.kids[Head(path)].k
  ELSE obj.kids[Head(path)].k \o <<ChDot>> \o dottedPath(obj.kids[Head(path)].v, Tail(path))

keyAt(obj, path) ==
  valueAt(obj, SubSeq(path, 1, Len(path) - 1)).kids[path[Len(path)]].k

RECURSIVE replaceAt(_, _, _)
replaceAt(obj, path, v) ==
  IF path = <<>> THEN v
  ELSE [obj EXCEPT !.kids[Head(path)].v = replaceAt(@, Tail(path), v)]

\* the property at path has a key or a dotted path that some pattern matches
isExcluded(obj, path, patterns) ==
  /\ path # <<>>
  /\ \E k \in 1..Len(patterns) :
       \/ matchesPattern(keyAt(obj, path), patterns[k])
       \/ matchesPattern(dottedPath(obj, path), patterns[k])

\* the three sources of a snapshot, each as one object of named values
sourceOf(app, source) ==
  CASE source = "tracked" -> Obj(app.tracked)
    [] source = "getters" -> Obj(app.getters)
    [] source = "capture" -> app.capture.v

withSource(app, source, obj) ==
  CASE source = "tracked" -> [app EXCEPT !.tracked = obj.kids]
    [] source = "getters" -> [app EXCEPT !.getters = obj.kids]
    [] source = "capture" -> [app EXCEPT !.capture.v = obj]

\* new StateTracker(config), and an application state next to it
InitState ==
  /\ appState \in AppStates
  /\ twinState = appState
  /\ excludePatterns \in ExcludeLists
  /\ snapshot = None
  /\ twinSnapshot = None
  /\ beforeCapture = None
  /\ ScanIdle
  /\ ExecIdle
  /\ SanIdle
  /\ TrackIdle
  /\ EngIdle
  /\ RestIdle

\* the second application state gets another value in a property that an
\* exclude pattern matches
ChangeExcluded(source, path, v) ==
  /\ Len(path) <= MaxNesting
  /\ isExcluded(sourceOf(twinState, source), path, excludePatterns)
  /\ valueAt(sourceOf(twinState, source), path) # v
  /\ twinState' = withSource(twinState, source, replaceAt(sourceOf(twinState, source), path, v))
  /\ UNCHANGED <<appState, excludePatterns, snapshot, twinSnapshot, beforeCapture, scanVars,
                 execVars, sanVars, trackVars, engVars, restVars>>

\* StateTracker.captureSnapshot in both application states
CaptureSnapshot ==
  /\ snapshot' = Some(captureSnapshot(appState, excludePatterns))
  /\ twinSnapshot' = Some(captureSnapshot(twinState, excludePatterns))
  /\ appState' = afterCapture(appState, excludePatterns)
  /\ twinState' = afterCapture(twinState, excludePatterns)
  /\ beforeCapture' = Some(appState)
  /\ UNCHANGED <<excludePatterns, scanVars, execVars, sanVars, trackVars, engVars, restVars>>

NextState ==
  \/ \E source \in {"tracked", "getters", "capture"} :
       \E path \in pathsOf(sourceOf(twinState, source)), v \in SecretValues :
         ChangeExcluded(source, path, v)
  \/ CaptureSnapshot

SpecState == InitState /\ [][NextState]_vars

C38_SnapshotLeavesState == beforeCapture.def => appState = beforeCapture.v

\* ------------------------------------------------------------- classifier
s_button == <<98, 117, 116, 116, 111, 110>>  \* "button"
s_a == <<97>>  \* "a"
s_select == <<115, 101, 108, 101, 99, 116>>  \* "select"
s_textarea == <<116, 101, 120, 116, 97, 114, 101, 97>>  \* "textarea"
s_form == <<102, 111, 114, 109>>  \* "form"
s_datalist == <<100, 97, 116, 97, 108, 105, 115, 116>>  \* "datalist"
s_output == <<111, 117, 116, 112, 117, 116>>  \* "output"
s_meter == <<109, 101, 116, 101, 114>>  \* "meter"
s_progress == <<112, 114, 111, 103, 114, 101, 115, 115>>  \* "progress"
s_details == <<100, 101, 116, 97, 105, 108, 115>>  \* "details"
s_dialog == <<100, 105, 97, 108, 111, 103>>  \* "dialog"
s_fieldset == <<102, 105, 101, 108, 100, 115, 101, 116>>  \* "fieldset"
s_section == <<115, 101, 99, 116, 105, 111, 110>>  \* "section"
s_article == <<97, 114, 116, 105, 99, 108, 101>>  \* "article"
s_main == <<109, 97, 105, 110>>  \* "main"
s_aside == <<97, 115, 105, 100, 101>>  \* "aside"
s_header == <<104, 101, 97, 100, 101, 114>>  \* "header"
s_footer == <<102, 111, 111, 116, 101, 114>>  \* "footer"
s_link == <<108, 105, 110, 107>>  \* "link"
s_textbox == <<116, 101, 120, 116, 98, 111, 120>>  \* "textbox"
s_checkbox == <<99, 104, 101, 99, 107, 98, 111, 120>>  \* "checkbox"
s_radio == <<114, 97, 100, 105, 111>>  \* "radio"
s_combobox == <<99, 111, 109, 98, 111, 98, 111, 120>>  \* "combobox"
s_listbox == <<108, 105, 115, 116, 98, 111, 120>>  \* "listbox"
s_tab == <<116, 97, 98>>  \* "tab"
s_true == <<116, 114, 117, 101>>  \* "true"
s_false == <<102, 97, 108, 115, 101>>  \* "false"
s_submit == <<115, 117, 98, 109, 105, 116>>  \* "submit"
s_text == <<116, 101, 120, 116>>  \* "text"
s_padded == <<32, 32, 97, 32, 32>>  \* "  a  "

\* String.prototype.toUpperCase on the ASCII letters
toUpperCase(s) == [i \in 1..Len(s) |-> IF s[i] \in 97..122 THEN s[i] - 32 ELSE s[i]]

\* element.getAttribute(name)?.toLowerCase()
lowerAttribute(a) == IF a.def THEN Some(toLowerCase(a.v)) ELSE None

\* DOMScanner.isContainer, of an element given by its tag and child count
isContainerOf(e) ==
  /\ toLowerCase(e.tagName) \in {s_div, s_section, s_article, s_main, s_aside, s_nav,
                                 s_header, s_footer}
  /\ e.children > 0

\* DOMScanner.hasSignificantText, of an element given by its text content and
\* by whether it has a descendant input, button, select, textarea or a
hasSignificantTextOf(e) == Len(trim(e.textContent)) > 3 /\ ~e.hasControl

\* the classifier with the native tag mapping tried before the ARIA role
getElementTypeTagFirst(e) ==
  LET tag == toLowerCase(e.tagName)
      type == lowerAttribute(e.type)
      role == lowerAttribute(e.role)
  IN
  IF tag = s_button THEN "button"
  ELSE IF tag = s_a THEN "link"
  ELSE IF tag = s_select THEN "select"
  ELSE IF tag = s_textarea THEN "textarea"
  ELSE IF tag = s_form THEN "form"
  ELSE IF tag = s_datalist THEN "select"
  ELSE IF tag = s_output THEN "text"
  ELSE IF tag \in {s_meter, s_progress} THEN "other"
  ELSE IF tag = s_details THEN "button"
  ELSE IF tag \in {s_dialog, s_fieldset} THEN "container"
  ELSE IF role.def /\ role.v = s_button THEN "button"
  ELSE IF role.def /\ role.v = s_link THEN "link"
  ELSE IF role.def /\ role.v = s_textbox THEN "input"
  ELSE IF role.def /\ role.v = s_checkbox THEN "checkbox"
  ELSE IF role.def /\ role.v = s_radio THEN "radio"
  ELSE IF role.def /\ role.v \in {s_combobox, s_listbox} THEN "select"
  ELSE IF e.contenteditable.def /\ e.contenteditable.v \in {s_true, <<>>} THEN "input"
  ELSE IF tag = s_input THEN
    IF type.def /\ type.v = s_checkbox THEN "checkbox"
    ELSE IF type.def /\ type.v = s_radio THEN "radio"
    ELSE IF type.def /\ type.v \in {s_submit, s_button} THEN "button"
    ELSE "input"
  ELSE IF e.onclick \/ e.ngClick THEN "button"
  ELSE IF isContainerOf(e) THEN "container"
  ELSE IF hasSignificantTextOf(e) THEN "text"
  ELSE "other"

\* DOMScanner.getElementType, of an element given by its tag, its type, role and
\* contenteditable attributes, its click-handler attributes and its content
getElementTypeOf(e) ==
  LET tag == toLowerCase(e.tagName)
      type == lowerAttribute(e.type)
      role == lowerAttribute(e.role)
      contentEditable == e.contenteditable
  IN
  \* `if (role)`: an empty attribute value is falsy
  IF role.def /\ role.v # <<>> /\ role.v = s_button THEN "button"
  ELSE IF role.def /\ role.v # <<>> /\ role.v = s_link THEN "link"
  ELSE IF role.def /\ role.v # <<>> /\ role.v = s_textbox THEN "input"
  ELSE IF role.def /\ role.v # <<>> /\ role.v = s_checkbox THEN "checkbox"
  ELSE IF role.def /\ role.v # <<>> /\ role.v = s_radio THEN "radio"
  ELSE IF role.def /\ role.v # <<>> /\ role.v \in {s_combobox, s_listbox} THEN "select"
  ELSE IF contentEditable.def /\ contentEditable.v \in {s_true, <<>>} THEN "input"
  ELSE IF tag = s_button THEN "button"
  ELSE IF tag = s_a THEN "link"
  ELSE IF tag = s_select THEN "select"
  ELSE IF tag = s_textarea THEN "textarea"
  ELSE IF tag = s_form THEN "form"
  ELSE IF tag = s_datalist THEN "select"
  ELSE IF tag = s_output THEN "text"
  ELSE IF tag \in {s_meter, s_progress} THEN "other"
  ELSE IF tag = s_details THEN "button"
  ELSE IF tag = s_dialog THEN "container"
  ELSE IF tag = s_fieldset THEN "container"
  ELSE IF tag = s_input THEN
    IF type.def /\ type.v = s_checkbox THEN "checkbox"
    ELSE IF type.def /\ type.v = s_radio THEN "radio"
    ELSE IF type.def /\ type.v \in {s_submit, s_button} THEN "button"
    ELSE "input"
  ELSE IF e.onclick \/ e.ngClick THEN "button"
  ELSE IF isContainerOf(e) THEN "container"
  ELSE IF hasSignificantTextOf(e) THEN "text"
  ELSE "other"

\* the elements that are classified
ClassifiedTags == {toUpperCase(s_div), toUpperCase(s_span), toUpperCase(s_button),
                   toUpperCase(s_a), toUpperCase(s_input), toUpperCase(s_meter),
                   toUpperCase(s_form), toUpperCase(s_details)}
ClassifiedRoles == {None, Some(s_button), Some(s_link), Some(s_textbox), Some(s_checkbox),
                    Some(s_radio), Some(s_combobox), Some(s_listbox),
                    Some(toUpperCase(s_button)), Some(s_tab)}
ClassifiedEditable == {None, Some(s_true), Some(<<>>), Some(s_false)}
ClassifiedTypes == {None, Some(s_checkbox), Some(s_submit), Some(s_text),
                    Some(toUpperCase(s_checkbox))}
ClassifiedContents ==
  { [children |-> 0, textContent |-> <<>>, hasControl |-> FALSE],
    [children |-> 0, textContent |-> s_hello, hasControl |-> FALSE],
    [children |-> 0, textContent |-> s_padded, hasControl |-> FALSE],
    [children |-> 1, textContent |-> <<>>, hasControl |-> FALSE],
    [children |-> 1, textContent |-> s_hello, hasControl |-> TRUE] }
ClassifiedElements ==
  { [tagName |-> tag, role |-> role, contenteditable |-> ce, type |-> type,
     onclick |-> handler = "onclick", ngClick |-> handler = "ng-click",
     children |-> c.children, textContent |-> c.textContent, hasControl |-> c.hasControl] :
    tag \in ClassifiedTags, role \in ClassifiedRoles, ce \in ClassifiedEditable,
    type \in ClassifiedTypes, handler \in {"none", "onclick", "ng-click"},
    c \in ClassifiedContents }

\* the idle predicates of the other parts of the program
OthersIdle == ScanIdle /\ ExecIdle /\ SanIdle /\ TrackIdle /\ EngIdle /\ StateIdle

InitClassify ==
  /\ element \in ClassifiedElements
  /\ classified = None
  /\ shown = <<>>
  /\ derived = None
  /\ outcomes = <<>>
  /\ OthersIdle
  /\ LifeIdle

\* one call of getElementType
Classify ==
  /\ ~classified.def
  /\ classified' = Some(getElementTypeOf(element))
  /\ UNCHANGED <<element, shown, derived, outcomes, scanVars, execVars, sanVars, trackVars,
                 engVars, stateVars, lifeVars>>

NextClassify == Classify

SpecClassify == InitClassify /\ [][NextClassify]_vars

\* the rules of the classifier in their order of precedence, each with whether
\* it matches the element and the type it gives
recognisedRole(e) ==
  e.role.def /\ toLowerCase(e.role.v) \in {s_button, s_link, s_textbox, s_checkbox,
                                            s_radio, s_combobox, s_listbox}
roleType(r) ==
  CASE r = s_button -> "button" [] r = s_link -> "link" [] r = s_textbox -> "input"
    [] r = s_checkbox -> "checkbox" [] r = s_radio -> "radio"
    [] r \in {s_combobox, s_listbox} -> "select" [] OTHER -> "none"
nativeTagType(t) ==
  CASE t = s_button -> "button" [] t = s_a -> "link" [] t = s_select -> "select"
    [] t = s_textarea -> "textarea" [] t = s_form -> "form" [] t = s_datalist -> "select"
    [] t = s_output -> "text" [] t \in {s_meter, s_progress} -> "other"
    [] t = s_details -> "button" [] t \in {s_dialog, s_fieldset} -> "container"
    [] OTHER -> "none"
inputTypeType(t) ==
  CASE t = Some(s_checkbox) -> "checkbox" [] t = Some(s_radio) -> "radio"
    [] t \in {Some(s_submit), Some(s_button)} -> "button" [] OTHER -> "input"
ClassifierRules(e) ==
  << [matches |-> recognisedRole(e),
      type |-> IF e.role.def THEN roleType(toLowerCase(e.role.v)) ELSE "none"],
     [matches |-> e.contenteditable \in {Some(s_true), Some(<<>>)}, type |-> "input"],
     [matches |-> nativeTagType(toLowerCase(e.tagName)) # "none",
      type |-> nativeTagType(toLowerCase(e.tagName))],
     [matches |-> toLowerCase(e.tagName) = s_input,
      type |-> inputTypeType(lowerAttribute(e.type))],
     [matches |-> e.onclick \/ e.ngClick, type |-> "button"],
     [matches |-> toLowerCase(e.tagName) \in {s_div, s_section, s_article, s_main, s_aside,
                                              s_nav, s_header, s_footer} /\ e.children > 0,
      type |-> "container"],
     [matches |-> Len(trim(e.textContent)) > 3 /\ ~e.hasControl, type |-> "text"],
     [matches |-> TRUE, type |-> "other"] >>
firstMatching(rules) ==
  rules[CHOOSE i \in DOMAIN rules : rules[i].matches /\ \A j \in 1..(i - 1) : ~rules[j].matches]

\* C31: classifier precedence. For every combination of tag, role,
\* contenteditable, input type and click-handler attribute the classified type
\* is the one of the first matching rule in the order role > contenteditable >
\* native tag > input type > click handler > container > text > other; a
\* recognised ARIA role overrides the native tag and the input type.
C31_ClassifierPrecedence ==
  classified.def =>
    /\ classified.v = firstMatching(ClassifierRules(element)).type
    /\ recognisedRole(element) => classified.v = roleType(toLowerCase(element.role.v))

\* a <button>, and an <input type=checkbox>, with role=link have been classified
\* as links
C31_Witness ==
  /\ classified = Some("link")
  /\ element.role = Some(s_link)
  /\ toLowerCase(element.tagName) \in {s_button, s_input}
  /\ element.contenteditable = Some(s_true)
  /\ element.onclick

\* ------------------------------------------- actions derived from elements
\* the DOM interface of an element, as the executor's instanceof checks see
\* it, and the type property of an input: the type attribute in lower case
\* when it names a known state, "text" otherwise
domInfo(e) ==
  LET tag == toLowerCase(e.tagName)
      type == lowerAttribute(e.type)
  IN [tag |-> tag,
      type |-> IF tag # s_input THEN <<>>
               ELSE IF type.def /\ type.v \in {s_checkbox, s_radio, s_submit, s_button}
                 THEN type.v
               ELSE s_text]

\* ContextAggregator.createAction: the action type, and whether the action
\* declares a value parameter
createAction(type, valued) == [type |-> type, valued |-> valued]

\* ContextAggregator.getActionsForElement, by the type of the descriptor
getActionsForElement(type) ==
  CASE type \in {"button", "link"} -> <<createAction("click", FALSE)>>
    [] type \in {"input", "textarea"} ->
         <<createAction("setValue", TRUE), createAction("focus", FALSE)>>
    [] type = "checkbox" -> <<createAction("check", FALSE), createAction("uncheck", FALSE)>>
    [] type = "radio" -> <<createAction("select", FALSE)>>
    [] type = "select" -> <<createAction("select", TRUE)>>
    [] type = "form" -> <<createAction("submit", FALSE)>>
    [] OTHER -> <<>>

\* ContextAggregator.generateActions for one descriptor
generateActions(type, flags) ==
  IF ~flags.enabled \/ ~flags.visible THEN <<>> ELSE getActionsForElement(type)

\* the message of the applicability failure with which executeSetValue,
\* executeSelect, executeCheck or executeSubmit answers for an element of this
\* DOM interface when the value is a valid one, "" when there is none
applicabilityError(action, info) ==
  CASE action = "setValue" ->
         IF info.tag \in {s_input, s_textarea} THEN "" ELSE "Element is not a text input"
    [] action = "select" ->
         IF info.tag = s_select \/ (info.tag = s_input /\ info.type = s_radio)
           THEN "" ELSE "Element is not selectable"
    [] action \in {"check", "uncheck"} ->
         IF info.tag = s_input /\ info.type \in {s_checkbox, s_radio}
           THEN "" ELSE "Element is not a checkbox"
    [] action = "submit" ->
         IF info.tag = s_form THEN "" ELSE "Element is not a form"
    [] OTHER -> ""

\* the elements whose actions are derived: every native control and a plain
\* element, with and without a role, a contenteditable and a type attribute
DerivedTags == {toUpperCase(s_div), toUpperCase(s_button), toUpperCase(s_a),
                toUpperCase(s_input), toUpperCase(s_select), toUpperCase(s_textarea),
                toUpperCase(s_form), toUpperCase(s_datalist), toUpperCase(s_details)}
DerivedTypes == {None, Some(s_checkbox), Some(s_radio), Some(s_text),
                 Some(toUpperCase(s_checkbox))}
DerivedElements ==
  { [tagName |-> tag, role |-> role, contenteditable |-> ce, type |-> type,
     onclick |-> FALSE, ngClick |-> FALSE,
     children |-> 0, textContent |-> s_hello, hasControl |-> FALSE] :
    tag \in DerivedTags, role \in ClassifiedRoles, ce \in {None, Some(s_true)},
    type \in DerivedTypes }

InitDerive ==
  /\ element \in DerivedElements
  /\ classified = None
  /\ shown \in [enabled : BOOLEAN, visible : BOOLEAN]
  /\ derived = None
  /\ outcomes = <<>>
  /\ OthersIdle
  /\ LifeIdle

\* the aggregator lists the actions of the scanned descriptor
GenerateActions ==
  /\ classified.def
  /\ ~derived.def
  /\ derived' = Some(generateActions(classified.v, shown))
  /\ UNCHANGED <<element, classified, shown, outcomes, scanVars, execVars, sanVars,
                 trackVars, engVars, stateVars, lifeVars>>

\* the next listed action is executed on the element it was derived from
ExecuteDerived ==
  /\ derived.def
  /\ Len(outcomes) < Len(derived.v)
  /\ outcomes' = Append(outcomes,
                        applicabilityError(derived.v[Len(outcomes) + 1].type,
                                           domInfo(element)))
  /\ UNCHANGED <<element, classified, shown, derived, scanVars, execVars, sanVars,
                 trackVars, engVars, stateVars, lifeVars>>

NextDerive ==
  \/ Classify
  \/ GenerateActions
  \/ ExecuteDerived

SpecDerive == InitDerive /\ [][NextDerive]_vars

\* C40: no action the aggregator lists for an enabled, visible descriptor fails,
\* when executed on the element it was derived from, because the element is
\* not a text input, not selectable, not a checkbox or not a form
C40_DerivedActionsExecutable ==
  \A k \in 1..Len(outcomes) : outcomes[k] = ""

\* ------------------------------------------------- UUICSEngine life cycle
\* the engine configurations: change tracking on (the default), the auto-scan
\* interval off (the default) or on
LifecycleConfigs == {[interval |-> i, track |-> TRUE] : i \in {0, 1000}}

\* the scans started by initialize() that have resolved their promise
initScansDone ==
  Cardinality({k \in DOMAIN scanLog : scanLog[k].origin = "initialize" /\ scanLog[k].replaced})

\* new UUICSEngine(config)
InitLifecycle ==
  /\ engineConfig \in LifecycleConfigs
  /\ isInitialized = FALSE
  /\ scanInterval = 0
  /\ intervals = {}
  /\ timerIds = 0
  /\ initCalls = <<>>
  /\ tracking = FALSE
  /\ destroys = 0
  /\ sinceDestroy = NotDestroyed
  /\ useIdleCallback \in BOOLEAN
  /\ pendingScans = <<>>
  /\ scanLog = <<>>
  /\ elog = <<>>
  /\ subscribers = {}
  /\ parent = [n \in Nodes |-> n - 1]
  /\ dom = [n \in Nodes |-> IF n = Body THEN BodyElement ELSE DivElement]
  /\ config = DefaultScannerConfig
  /\ cache = [n \in Nodes |-> NoEntry]
  /\ idCounter = 0
  /\ now = 1
  /\ lastScan = NoScan
  /\ prevScan = NoScan
  /\ currentContext = NoContext
  /\ mutations = 0
  /\ scanThrew = FALSE
  /\ commands = <<>>
  /\ page = InitialPage
  /\ phase = <<>>
  /\ waits = <<>>
  /\ results = <<>>
  /\ log = <<>>
  /\ next = 1
  /\ delayPending = FALSE
  /\ batchDone = TRUE
  /\ escaped = FALSE
  /\ pageMutations = 0
  /\ SanIdle
  /\ TrackIdle
  /\ StateIdle
  /\ ClassIdle

\* UUICSEngine.initialize, from the call to `await this.scan()`
Initialize ==
  /\ ~isInitialized
  /\ Len(initCalls) < MaxInits
  /\ askedFor < MaxScans
  /\ requestScan("initialize", pendingScans)
  /\ initCalls' = Append(initCalls, [resumed |-> FALSE])
  /\ sinceDestroy' = NotDestroyed
  /\ UNCHANGED <<engineConfig, isInitialized, scanInterval, intervals, timerIds, tracking,
                 destroys, execVars, sanVars, trackVars, useIdleCallback, elog, subscribers,
                 stateVars, classVars>>

\* UUICSEngine.initialize, from the resolution of its scan to the return
InitializeResume(k) ==
  /\ ~initCalls[k].resumed
  /\ k <= initScansDone
  /\ initCalls' = [initCalls EXCEPT ![k].resumed = TRUE]
  /\ tracking' = (tracking \/ engineConfig.track)
  /\ IF engineConfig.interval > 0
       THEN /\ timerIds' = timerIds + 1
            /\ intervals' = intervals \cup {timerIds + 1}
            /\ scanInterval' = timerIds + 1
       ELSE UNCHANGED <<timerIds, intervals, scanInterval>>
  /\ isInitialized' = TRUE
  /\ UNCHANGED <<engineConfig, destroys, sinceDestroy, scanVars, execVars, sanVars, trackVars,
                 engVars, stateVars, classVars>>

\* the callers of engine.scan(): the callback the engine gave to tracker.start,
\* the callback of the auto-scan interval, and the application
ScanOrigins == {"tracker", "interval", "caller"}

\* engine.scan() is called by one of them
ScanCall(origin) ==
  /\ askedFor < MaxScans
  /\ origin = "tracker" => tracking
  /\ origin = "interval" => intervals # {}
  /\ requestScan(origin, pendingScans)
  /\ sinceDestroy' = IF origin = "caller"
                       THEN [sinceDestroy EXCEPT !.scanCalled = TRUE]
                       ELSE sinceDestroy
  /\ UNCHANGED <<engineConfig, isInitialized, scanInterval, intervals, timerIds, initCalls,
                 tracking, destroys, execVars, sanVars, trackVars, useIdleCallback, elog,
                 subscribers, stateVars, classVars>>

\* UUICSEngine.destroy
Destroy ==
  /\ destroys < MaxDestroys
  /\ destroys' = destroys + 1
  /\ tracking' = FALSE
  /\ scanInterval' = 0
  /\ intervals' = intervals \ {scanInterval}
  /\ subscribers' = {}
  /\ currentContext' = NoContext
  /\ cache' = [n \in Nodes |-> NoEntry]
  /\ isInitialized' = FALSE
  /\ sinceDestroy' = [def |-> TRUE, scans |-> Len(scanLog), scanCalled |-> FALSE,
                      running |-> intervals']
  /\ UNCHANGED <<engineConfig, timerIds, initCalls, parent, dom, config, idCounter, now,
                 lastScan, prevScan, mutations, scanThrew, execVars, sanVars, trackVars,
                 useIdleCallback, pendingScans, scanLog, elog, stateVars, classVars>>

NextLifecycle ==
  \/ Initialize
  \/ \E k \in 1..Len(initCalls) : InitializeResume(k)
  \/ EngineExecute(EngineCommands[1])
  \/ \E i \in 1..Len(pendingScans) : RescanTimerFire(i)
  \/ \E i \in 1..Len(pendingScans) : IdleFire(i)
  \/ \E origin \in ScanOrigins : ScanCall(origin)
  \/ Destroy

SpecLifecycle == InitLifecycle /\ [][NextLifecycle]_vars

\* C32: after destroy() has returned the engine is inert until initialize() is
\* called again: the tracker is inactive, no auto-scan interval is running and
\* `initialized` is false, also when an earlier initialize() call was still
\* awaiting its initial scan at the time.
C32_InertAfterDestroy ==
  sinceDestroy.def => ~tracking /\ intervals = {} /\ ~isInitialized

\* C33: after destroy() has returned, getContext() is null and no scan runs
\* until the caller invokes scan() or initialize() again, also when a re-scan
\* timer or an idle-deferred scan was pending at the time.
C33_QuietAfterDestroy ==
  (sinceDestroy.def /\ ~sinceDestroy.scanCalled) =>
    currentContext = NoContext /\ Len(scanLog) = sinceDestroy.scans

\* C34: the engine owns at most one auto-scan interval timer at any time, and
\* when destroy() returns no interval the engine created is running, for any
\* interleaving of initialize() calls.
C34_OneInterval ==
  /\ Cardinality(intervals) <= 1
  /\ sinceDestroy.def => sinceDestroy.running = {}
====
